---- MODULE Spec2Model ----
(***************************************************************************)
(* A model of the Webscraper-API core: the proxy store with its circuit    *)
(* breaker (database.py), the proxy pool (proxy_pool.py), the fetch        *)
(* executor's retry loop (main.py) and the request metric it records       *)
(* (metrics.py).                                                           *)
(*                                                                         *)
(* Fourteen specifications share the definitions below:                        *)
(*   SpecStore  the DatabaseManager operations behind the CircuitBreaker,  *)
(*              a clock and a database that may fail;                      *)
(*   SpecRows   the operations that change the rows of the proxies table;  *)
(*   SpecRecovery  the same with the reset as the service calls it;        *)
(*   SpecPool   the ProxyPool operations called by clients, the background *)
(*              worker and the maintenance endpoints, over that store, at  *)
(*              one instant of the breaker's clock;                        *)
(*   SpecFlush  one caller's releases and their batched writeback, over a  *)
(*              database that may fail between any two operations;         *)
(*   Spec       concurrent fetch calls (newspaper / news-please) over the  *)
(*              pool, between two runs of its background worker;           *)
(*   SpecWorker one fetch call while the pool's background worker runs;    *)
(*   SpecOutage one fetch call and the pool's refreshes over a database    *)
(*              that may stop answering, up to an OPEN breaker;            *)
(*   SpecStop   the background worker's loop, a caller of the pool and     *)
(*              ProxyPool.stop();                                          *)
(*   SpecLock   the background worker's refresh and flush in the steps of  *)
(*              the pool's lock, and a caller of the pool;                 *)
(*   SpecMetrics  the metrics ring under record_request calls and the      *)
(*              cleanup worker's retention passes;                         *)
(*   SpecStamps the same ring when each record_request_metric call reads   *)
(*              the clock in one step and appends in another;              *)
(*   SpecCalls  threads inside the operations of the pool and the store,   *)
(*              lock by lock, with the connection pool and disconnect();   *)
(*   SpecQueue  the QueueManager's job list and status keys under clients  *)
(*              that enqueue and a worker that dequeues.                   *)
(***************************************************************************)
EXTENDS Integers, Sequences, FiniteSets, TLC

\* ------------------------------------------------------------------ bounds

\* Number of rows of the proxies table.
NumProxies == 2
\* The clock runs for this many steps of RecoveryTimeout seconds.
MaxTicks == 2
\* Rows' error_count is followed up to this value (the column is unbounded).
MaxErrorCount == 3
\* Callers of the pool that may each hold one lent entry at a time.
NumClients == 2
\* Entries lent or released between two batch flushes.
MaxPending == 2
\* proxy_pool_size and min_proxy_pool_size of the configuration, scaled to
\* the size of the table.
PoolSize == 2
MinPoolSize == 1
\* proxy_retry_count of the configuration: a fetch makes MaxRetries + 1 attempts.
MaxRetries == 2
\* max_memory_entries of the configuration: the maxlen of the metrics ring.
MaxMemoryEntries == 2
\* Nested _refresh_pool invocations that are followed.
MaxNesting == 4
\* Seconds the clock is followed within each retention period.
MaxMoments == 1
\* Entries of one thread into the pool's re-entrant lock that are followed.
MaxDepth == 3
\* Connection pools created (after disconnect) that are followed.
MaxPools == 2
\* Jobs that are enqueued.
NumJobs == 3

\* ------------------------------------------------------- program constants

\* CircuitBreaker.__init__ defaults; DatabaseManager builds CircuitBreaker().
FailureThreshold == 5
RecoveryTimeout == 60
\* The error_count at which the SQL of increment_proxy_error inactivates a row,
\* and below which get_proxies selects it.
ErrorThreshold == 3
\* last_failure_time = None
None == -1
\* get_proxy returns None; selected_proxy = None
NoProxy == 0
\* max_attempts = min(50, qsize + 10)
MaxRotations == 50
RotationSlack == 10
\* memory_retention_hours of the configuration (default)
MemoryRetentionHours == 24

Proxies == 1..NumProxies
Clients == 1..NumClients
MaxTime == MaxTicks * RecoveryTimeout
\* self.memory_retention_hours * 3600
MemoryRetention == MemoryRetentionHours * 3600

\* max_error_count as health_check and the reset endpoint pass it.
RecoveryMaxErrorCount == 2

\* ------------------------------------------------------------------- state

VARIABLES
    \* --- the store (database.py)
    proxies,            \* the proxies table: id -> [status, error_count]
    dbUp,               \* whether the database answers (else every SQL call raises)
    last_used_exists,   \* whether the table has the optional last_used column
    circuit_breaker,    \* [state, failure_count, last_failure_time]
    schema,             \* [checked |-> _schema_checked, has_last_used |-> _has_last_used_column]
    now,                \* time.time(), in seconds
    last_call,          \* history: what the last store operation did
    \* --- the pool (proxy_pool.py)
    available_proxies,          \* the queue, as the sequence of its entries' ids
    failed_proxies,             \* the global fail-set
    pending_error_updates,      \* id -> pending error increments (0: no key)
    pending_success_updates,    \* ids with a pending last_used mark
    lent,               \* client -> the id of the entry get_proxy lent it, or NoProxy
    released,           \* history: the releases since the last batch flush
    last_op,            \* history: what the last get_proxy, return_proxy or flush did
    \* --- the fetch executor (main.py) and the metrics (metrics.py)
    fetch,                      \* request id -> the locals of its scrape_with_* call
    request_failed_proxies,     \* request id -> the proxy ids that failed for it
    recent_requests,            \* the metrics recorded, oldest first
    \* --- the pool's background thread and stop() (proxy_pool.py)
    worker,                     \* [pc, stop_event, stop, did]
    \* --- the threads inside the store's operations and the locks
    threads,            \* thread -> where it is in its operation, what it holds
    locks,              \* lock -> the thread that holds it, or NoThread
    connection_pool,    \* DatabaseManager.connection_pool: [gen, out, made]
    \* --- the job queue (queue_manager.py)
    redis               \* [queue, status, enqueue, worker]: the Redis list and
                        \* status keys, each enqueue_job call's position, the
                        \* dequeuing worker's job and position

storeVars == <<proxies, dbUp, last_used_exists, circuit_breaker, schema, now, last_call>>

poolVars == <<available_proxies, failed_proxies, pending_error_updates,
              pending_success_updates, lent, released, last_op>>

callVars == <<threads, locks, connection_pool>>

fetchVars == <<fetch, request_failed_proxies, recent_requests, worker, callVars, redis>>

vars == <<proxies, dbUp, last_used_exists, circuit_breaker, schema, now, last_call,
          available_proxies, failed_proxies, pending_error_updates,
          pending_success_updates, lent, released, last_op,
          fetch, request_failed_proxies, recent_requests, worker,
          threads, locks, connection_pool, redis>>

\* ------------------------------------------------------- CircuitBreaker.call

\* Faulty variant of CBAdmits: a call is let through as soon as
\* recovery_timeout is reached.
CBAdmitsAtTimeout(cb, t) ==
    cb.state # "OPEN" \/ t - cb.last_failure_time >= RecoveryTimeout

\* The OPEN branch of call: the call is let through unless the breaker is OPEN
\* and recovery_timeout has not yet been exceeded.
CBAdmits(cb, t) ==
    cb.state # "OPEN" \/ t - cb.last_failure_time > RecoveryTimeout

\* The state in which the wrapped function runs (OPEN becomes HALF_OPEN).
CBEntered(cb) ==
    IF cb.state = "OPEN" THEN [cb EXCEPT !.state = "HALF_OPEN"] ELSE cb

\* The try branch: the wrapped function returned.
CBOnSuccess(cb) ==
    IF cb.state = "HALF_OPEN"
    THEN [cb EXCEPT !.state = "CLOSED", !.failure_count = 0]
    ELSE cb

\* Faulty variant of CBOnFailure: the breaker opens one failure late.
CBOnFailureLate(cb, t) ==
    [state |-> IF cb.failure_count + 1 > FailureThreshold THEN "OPEN" ELSE cb.state,
     failure_count |-> cb.failure_count + 1,
     last_failure_time |-> t]

\* Faulty variant of CBOnFailure: a failure in HALF_OPEN keeps the time of the
\* failure before it.
CBOnFailureStaleTime(cb, t) ==
    [state |-> IF cb.failure_count + 1 >= FailureThreshold THEN "OPEN" ELSE cb.state,
     failure_count |-> cb.failure_count + 1,
     last_failure_time |-> IF cb.state = "HALF_OPEN" THEN cb.last_failure_time ELSE t]

\* The except branch: the wrapped function raised at time t.
CBOnFailure(cb, t) ==
    [state |-> IF cb.failure_count + 1 >= FailureThreshold THEN "OPEN" ELSE cb.state,
     failure_count |-> cb.failure_count + 1,
     last_failure_time |-> t]

\* The breaker after one call at time t of a function that raises iff `raises`.
CBCall(cb, t, raises) ==
    IF ~CBAdmits(cb, t) THEN cb
    ELSE IF raises THEN CBOnFailure(CBEntered(cb), t)
    ELSE CBOnSuccess(CBEntered(cb))

\* ---------------------------------------------------------- DatabaseManager

\* The store as the operations below read and change it.
Store == [proxies |-> proxies, cb |-> circuit_breaker, schema |-> schema]

\* What one store operation did: the store after it, whether it returned its
\* success value, whether the breaker let the wrapped function run, whether a
\* connection was checked out of the connection pool, its result value, and
\* whether it went through circuit_breaker.call.
StoreResult(st, ok, invoked, checked_out, value) ==
    [st |-> st, ok |-> ok, invoked |-> invoked, checked_out |-> checked_out,
     value |-> value, wrapped |-> TRUE]

\* get_connection: getconn() hands out a connection iff the database answers.
get_connection_ok == dbUp

\* _check_schema: probes once; a failed probe is cached as "checked" too, with
\* _has_last_used_column left as it was.
check_schema(sc) ==
    IF sc.checked THEN sc
    ELSE [checked |-> TRUE,
          has_last_used |-> IF get_connection_ok THEN last_used_exists
                            ELSE sc.has_last_used]

\* The rows the SELECT of get_proxies matches.
Usable(rows) ==
    {p \in Proxies : rows[p].status = "active" /\ rows[p].error_count < ErrorThreshold}

\* ORDER BY error_count ASC, RANDOM(): every order of the usable rows that is
\* sorted by error_count.
Orderings(rows) ==
    LET U == Usable(rows)
        n == Cardinality(U)
    IN {s \in [1..n -> U] :
            /\ \A i, j \in 1..n : i # j => s[i] # s[j]
            /\ \A i, j \in 1..n : i < j => rows[s[i]].error_count <= rows[s[j]].error_count}

\* LIMIT count * 2, then proxy_list[:count].
Limited(s, count) ==
    LET fetched == SubSeq(s, 1, IF Len(s) < count * 2 THEN Len(s) ELSE count * 2)
    IN SubSeq(fetched, 1, IF Len(fetched) < count THEN Len(fetched) ELSE count)

\* get_proxies(count) when the query returns its rows in the order `order`:
\* [] when the breaker rejects the call or the query raises.
get_proxies(st, count, order) ==
    LET admitted == CBAdmits(st.cb, now)
        sc == IF admitted THEN check_schema(st.schema) ELSE st.schema
        ok == admitted /\ get_connection_ok
    IN StoreResult([st EXCEPT !.cb = CBCall(st.cb, now, ~get_connection_ok),
                              !.schema = sc],
                   ok, admitted, ok,
                   IF ok THEN Limited(order, count) ELSE <<>>)

\* Faulty variant of IncrementedRow: the status is left to a later statement.
IncrementedRowOnly(row) ==
    [error_count |-> row.error_count + 1, status |-> row.status]

\* The UPDATE of increment_proxy_error on one row.
IncrementedRow(row) ==
    [error_count |-> row.error_count + 1,
     status |-> IF row.error_count + 1 >= ErrorThreshold THEN "inactive" ELSE row.status]

\* increment_proxy_error(proxy_id): False when rejected or when the UPDATE raises.
increment_proxy_error(st, id) ==
    LET admitted == CBAdmits(st.cb, now)
        ok == admitted /\ get_connection_ok
    IN StoreResult([st EXCEPT !.cb = CBCall(st.cb, now, ~get_connection_ok),
                              !.proxies[id] = IF ok THEN IncrementedRow(@) ELSE @],
                   ok, admitted, ok, ok)

\* update_proxy_last_used(proxy_id): returns True without a connection when the
\* probe found (or cached) no last_used column.
update_proxy_last_used(st, id) ==
    LET admitted == CBAdmits(st.cb, now)
        sc == IF admitted THEN check_schema(st.schema) ELSE st.schema
        writes == admitted /\ sc.has_last_used
        raises == sc.has_last_used /\ ~get_connection_ok
    IN StoreResult([st EXCEPT !.cb = CBCall(st.cb, now, raises), !.schema = sc],
                   admitted /\ ~raises, admitted, writes /\ get_connection_ok,
                   writes /\ get_connection_ok)

\* Faulty variant of Resettable: rows at max_error_count itself are left out.
ResettableBelow(rows, max_error_count) ==
    {p \in Proxies : rows[p].error_count < max_error_count /\ rows[p].status = "inactive"}

\* Faulty variant of Resettable: every inactive row is matched.
ResettableAnyInactive(rows, max_error_count) ==
    {p \in Proxies : rows[p].status = "inactive"}

\* The rows the UPDATE of reset_proxy_errors matches.
Resettable(rows, max_error_count) ==
    {p \in Proxies : rows[p].error_count <= max_error_count /\ rows[p].status = "inactive"}

\* reset_proxy_errors(max_error_count): returns the number of rows reset, 0 when
\* rejected or when the UPDATE raises.
reset_proxy_errors(st, max_error_count) ==
    LET admitted == CBAdmits(st.cb, now)
        ok == admitted /\ get_connection_ok
        R == Resettable(st.proxies, max_error_count)
    IN StoreResult([st EXCEPT !.cb = CBCall(st.cb, now, ~get_connection_ok),
                              !.proxies = IF ok
                                          THEN [p \in Proxies |->
                                                  IF p \in R
                                                  THEN [error_count |-> 0, status |-> "active"]
                                                  ELSE st.proxies[p]]
                                          ELSE @],
                   ok, admitted, ok, IF ok THEN Cardinality(R) ELSE 0)

\* test_connection, test_proxy_table, get_proxy_stats: breaker-wrapped reads.
store_read(st) ==
    LET admitted == CBAdmits(st.cb, now)
        ok == admitted /\ get_connection_ok
    IN StoreResult([st EXCEPT !.cb = CBCall(st.cb, now, ~get_connection_ok)],
                   ok, admitted, ok, ok)

\* connect(): the legacy method opens a connection itself, not through
\* circuit_breaker.call.
connect(st) ==
    [StoreResult(st, get_connection_ok, TRUE, get_connection_ok, get_connection_ok)
        EXCEPT !.wrapped = FALSE]

\* ------------------------------------------------- the store's operations

\* History of one store operation with result `r`, made in store `st`:
\* whether the breaker was OPEN with less than recovery_timeout elapsed since
\* last_failure_time, what the operation did, and the number of calls through circuit_breaker.call
\* whose function raised in a row before it (streak_before) and up to it
\* (streak).
CallRecord(st, r) ==
    [open_fresh |-> st.cb.state = "OPEN" /\ now - st.cb.last_failure_time < RecoveryTimeout,
     invoked |-> r.invoked,
     checked_out |-> r.checked_out,
     raised |-> r.invoked /\ ~r.ok,
     wrapped |-> r.wrapped,
     streak_before |-> last_call.streak,
     streak |-> IF ~r.invoked \/ ~r.wrapped THEN last_call.streak
                ELSE IF r.ok THEN 0 ELSE last_call.streak + 1,
     max_error_count |-> None,
     count |-> 0]

\* The store after an operation, with `rec` as the operation's history.
Recorded(r, rec) ==
    /\ proxies' = r.st.proxies
    /\ circuit_breaker' = r.st.cb
    /\ schema' = r.st.schema
    /\ last_call' = rec
    /\ UNCHANGED <<dbUp, last_used_exists, now>>
    /\ UNCHANGED <<poolVars, fetchVars>>

\* The store after an operation, with the operation's history.
Commit(r) == Recorded(r, CallRecord(Store, r))

TestConnection == Commit(store_read(Store))

GetProxies ==
    \E count \in 1..NumProxies : \E order \in Orderings(proxies) :
        Commit(get_proxies(Store, count, order))

IncrementProxyError ==
    \E id \in Proxies :
        /\ proxies[id].error_count < MaxErrorCount
        /\ Commit(increment_proxy_error(Store, id))

UpdateProxyLastUsed ==
    \E id \in Proxies :
        Commit(update_proxy_last_used(Store, id))

\* reset_proxy_errors(m); the history keeps the argument and the number
\* returned.
ResetProxyErrors ==
    \E m \in 0..MaxErrorCount :
        LET r == reset_proxy_errors(Store, m)
        IN Recorded(r, [CallRecord(Store, r) EXCEPT !.max_error_count = m,
                                                    !.count = r.value])

Connect == Commit(connect(Store))

\* reset_proxy_errors as the health check and the reset endpoint call it.
ResetForRecovery ==
    LET r == reset_proxy_errors(Store, RecoveryMaxErrorCount)
    IN Recorded(r, [CallRecord(Store, r) EXCEPT !.max_error_count = RecoveryMaxErrorCount,
                                                !.count = r.value])

\* The clock advances.
Tick ==
    /\ now < MaxTime
    /\ now' = now + RecoveryTimeout
    /\ UNCHANGED <<proxies, dbUp, last_used_exists, circuit_breaker, schema, last_call>>
    /\ UNCHANGED <<poolVars, fetchVars>>

\* The database stops answering, or answers again.
DbToggle ==
    /\ dbUp' = ~dbUp
    /\ UNCHANGED <<proxies, last_used_exists, circuit_breaker, schema, now, last_call>>
    /\ UNCHANGED <<poolVars, fetchVars>>

\* A store operation that goes through circuit_breaker.call, under the
\* operations that leave the rows alone.
BreakerCall == TestConnection \/ GetProxies \/ UpdateProxyLastUsed

\* The store after DatabaseManager.__init__: a CLOSED breaker, no probe yet,
\* and a table of rows never used (active, no error) or taken out of service
\* by hand (inactive).
InitRows ==
    [Proxies -> {[status |-> "active", error_count |-> 0],
                 [status |-> "inactive", error_count |-> 1]}]

\* CircuitBreaker.__init__
NewBreaker == [state |-> "CLOSED", failure_count |-> 0, last_failure_time |-> None]

\* _schema_checked = False, _has_last_used_column = False
NewSchema == [checked |-> FALSE, has_last_used |-> FALSE]

\* No store operation yet.
NoCall ==
    [open_fresh |-> FALSE, invoked |-> FALSE, checked_out |-> FALSE,
     raised |-> FALSE, wrapped |-> TRUE, streak_before |-> 0, streak |-> 0,
     max_error_count |-> None, count |-> 0]

\* The table, the database and the clock when the service starts.
InitEnv ==
    /\ proxies \in InitRows
    /\ dbUp \in BOOLEAN
    /\ last_used_exists \in BOOLEAN
    /\ now = 0
    /\ last_call = NoCall

InitTable ==
    /\ InitEnv
    /\ circuit_breaker = NewBreaker
    /\ schema = NewSchema

\* The last pool operation was none of get_proxy, return_proxy and the flush.
NoFlush == [op |-> "other"]

\* No release since the last flush.
NoReleases == [failed |-> [p \in Proxies |-> 0], ok |-> 0, ok_ids |-> {}]

\* selected_proxy = None, error_type = None, attempt_count = 0: a request id
\* no scrape_with_* call has been made for. status is the status code of the
\* response to the current attempt's HTTP request, None before it; timestamp
\* is the time.time() that record_request_metric read for the call's metric.
NoFetch ==
    [pc |-> "idle", method |-> "none", use_proxy |-> FALSE, attempt |-> 0,
     attempt_count |-> 0, selected_proxy |-> NoProxy, error_type |-> "None",
     status |-> None, timestamp |-> None]

\* The background thread as _start_background_worker starts it, before its
\* first test of the stop event; stop() not called. `did` is the history of
\* the thread's last step.
NewWorker == [pc |-> "wait", stop_event |-> FALSE, stop |-> "none", did |-> "none",
              lock |-> "free", io |-> FALSE, blocked |-> FALSE]

\* No thread holds a lock.
NoThread == 0

\* A thread that is in no operation of the store or the pool: `depth` counts
\* its entries into the pool's re-entrant lock, `conn` is the connection pool
\* its connection was checked out of (0: it has none), `raised` whether
\* an exception is propagating, `rejected` whether the breaker refused it.
IdleThread ==
    [pc |-> "idle", op |-> "none", depth |-> 0, conn |-> 0,
     raised |-> FALSE, rejected |-> FALSE]

\* ProxyPool._lock, CircuitBreaker._lock and DatabaseManager._lock, all free.
FreeLocks == [pool |-> NoThread, breaker |-> NoThread, creation |-> NoThread]

\* DatabaseManager.connection_pool = None: `gen` names the pool object in
\* use (0: None), `out` counts its checked-out connections, `made` the pools
\* created so far.
NoConnectionPool == [gen |-> 0, out |-> 0, made |-> 0]

\* The jobs enqueue_job is called for.
Jobs == 1..NumJobs

\* No job: an empty list, no status key, no enqueue_job call begun, the
\* worker with no job in hand.
EmptyRedis ==
    [queue |-> <<>>,
     status |-> [j \in Jobs |-> "none"],
     enqueue |-> [j \in Jobs |-> "new"],
     worker |-> [job |-> 0, pc |-> "idle"]]

\* No fetch yet: EnhancedProxyRetryManager.__init__ and an empty metrics ring;
\* no thread in an operation, no connection pool yet.
IdleFetch ==
    /\ fetch = [r \in Clients |-> NoFetch]
    /\ request_failed_proxies = [r \in Clients |-> {}]
    /\ recent_requests = <<>>
    /\ worker = NewWorker
    /\ threads = [t \in Clients |-> IdleThread]
    /\ locks = FreeLocks
    /\ connection_pool = NoConnectionPool
    /\ redis = EmptyRedis

\* A pool nobody uses: the store's own specifications leave it alone.
IdlePool ==
    /\ available_proxies = <<>>
    /\ failed_proxies = {}
    /\ pending_error_updates = [p \in Proxies |-> 0]
    /\ pending_success_updates = {}
    /\ lent = [c \in Clients |-> NoProxy]
    /\ released = NoReleases
    /\ last_op = NoFlush

InitStore == InitTable /\ IdlePool /\ IdleFetch

\* The breaker under the operations that leave the rows alone, with the clock.
NextStore ==
    \/ TestConnection
    \/ GetProxies
    \/ UpdateProxyLastUsed
    \/ Connect
    \/ Tick
    \/ DbToggle

SpecStore == InitStore /\ [][NextStore]_vars

\* The rows under the operations that change them, at one instant.
NextRows ==
    \/ GetProxies
    \/ IncrementProxyError
    \/ ResetProxyErrors
    \/ DbToggle

SpecRows == InitStore /\ [][NextRows]_vars

\* The rows under the operations the service itself makes on them: the reset
\* is the one of the health check and the reset endpoint.
NextRecovery ==
    \/ GetProxies
    \/ IncrementProxyError
    \/ ResetForRecovery
    \/ DbToggle

SpecRecovery == InitStore /\ [][NextRecovery]_vars

\* ------------------------------------------------------------ ProxyPool

\* The pool as the operations below read and change it.
Pool ==
    [queue |-> available_proxies, failed |-> failed_proxies,
     errors |-> pending_error_updates, marks |-> pending_success_updates]

\* The pool's state before its first refresh (ProxyPool.__init__).
EmptyPool ==
    [queue |-> <<>>, failed |-> {}, errors |-> [p \in Proxies |-> 0], marks |-> {}]

\* Whether the queue holds an entry for proxy id.
InQueue(id, queue) == \E i \in 1..Len(queue) : queue[i] = id

\* The fresh rows that _refresh_pool enqueues: those not in the fail-set.
Enqueued(fresh, failed) == SelectSeq(fresh, LAMBDA p : p \notin failed)

\* Faulty variant of refresh_pool: the queue is drained before the rows are
\* looked at.
refresh_pool_draining(pl, st, order1, order2) ==
    LET r1 == get_proxies(st, PoolSize, order1)
        q1 == Enqueued(r1.value, pl.failed)
        r2 == get_proxies(r1.st, PoolSize, order2)
    IN IF r1.value = <<>> THEN [pool |-> [pl EXCEPT !.queue = <<>>], st |-> r1.st]
       ELSE IF Len(q1) < MinPoolSize /\ pl.failed # {}
       THEN [pool |-> [pl EXCEPT !.queue = IF r2.value = <<>> THEN q1 ELSE r2.value,
                                 !.failed = {}],
             st |-> r2.st]
       ELSE [pool |-> [pl EXCEPT !.queue = q1], st |-> r1.st]

\* _refresh_pool past its time check: get_proxies(pool_size); no rows, no change;
\* else the queue is drained and refilled, and when fewer than min_pool_size
\* were added and the fail-set is not empty, the fail-set is cleared and the
\* pool refreshed again (order2 is the row order of that second query).
refresh_pool(pl, st, order1, order2) ==
    LET r1 == get_proxies(st, PoolSize, order1)
        q1 == Enqueued(r1.value, pl.failed)
        r2 == get_proxies(r1.st, PoolSize, order2)
    IN IF r1.value = <<>> THEN [pool |-> pl, st |-> r1.st]
       ELSE IF Len(q1) < MinPoolSize /\ pl.failed # {}
       THEN [pool |-> [pl EXCEPT !.queue = IF r2.value = <<>> THEN q1 ELSE r2.value,
                                 !.failed = {}],
             st |-> r2.st]
       ELSE [pool |-> [pl EXCEPT !.queue = q1], st |-> r1.st]

\* Faulty variant of refresh_calls: the fail-set is not cleared before the
\* nested call.
RECURSIVE refresh_calls_uncleared(_, _, _)
refresh_calls_uncleared(failed, st, fuel) ==
    IF fuel = 0 THEN {0}
    ELSE UNION {LET r == get_proxies(st, PoolSize, order)
                IN IF /\ r.value # <<>>
                      /\ Len(Enqueued(r.value, failed)) < MinPoolSize
                      /\ failed # {}
                   THEN {1 + n : n \in refresh_calls_uncleared(failed, r.st, fuel - 1)}
                   ELSE {1} :
                order \in Orderings(st.proxies)}

\* The numbers of _refresh_pool invocations that one forced refresh may make,
\* the call that starts it included: the recursion of _refresh_pool followed
\* as written, for at most `fuel` nested invocations.
RECURSIVE refresh_calls(_, _, _)
refresh_calls(failed, st, fuel) ==
    IF fuel = 0 THEN {0}
    ELSE UNION {LET r == get_proxies(st, PoolSize, order)
                IN IF /\ r.value # <<>>
                      /\ Len(Enqueued(r.value, failed)) < MinPoolSize
                      /\ failed # {}
                   THEN {1 + n : n \in refresh_calls({}, r.st, fuel - 1)}
                   ELSE {1} :
                order \in Orderings(st.proxies)}

\* Every outcome of _refresh_pool, over the row orders of its queries.
RefreshOutcomes(pl, st) ==
    {refresh_pool(pl, st, order1, order2) :
        order1 \in Orderings(st.proxies), order2 \in Orderings(st.proxies)}

\* max_attempts = min(50, qsize + 10)
max_attempts(queue) ==
    IF Len(queue) + RotationSlack < MaxRotations
    THEN Len(queue) + RotationSlack ELSE MaxRotations

\* The loop of get_proxy: the head entry is taken; an entry whose id is in
\* exclude_ids or in the fail-set is put back at the tail and counts as an
\* attempt. `empty` tells that get_nowait raised Empty.
RECURSIVE get_loop(_, _, _, _, _)
get_loop(queue, exclude_ids, failed, attempts, limit) ==
    IF attempts >= limit THEN [proxy |-> NoProxy, queue |-> queue, empty |-> FALSE]
    ELSE IF queue = <<>> THEN [proxy |-> NoProxy, queue |-> queue, empty |-> TRUE]
    ELSE IF Head(queue) \in exclude_ids \/ Head(queue) \in failed
         THEN get_loop(Append(Tail(queue), Head(queue)), exclude_ids, failed,
                       attempts + 1, limit)
         ELSE [proxy |-> Head(queue), queue |-> Tail(queue), empty |-> FALSE]

\* Faulty variant of get_proxy: the head entry is handed out unchecked.
get_proxy_head(pl, st, exclude_ids) ==
    IF pl.queue = <<>>
    THEN {[proxy |-> NoProxy, pool |-> f.pool, st |-> f.st] :
             f \in RefreshOutcomes(pl, st)}
    ELSE {[proxy |-> Head(pl.queue), pool |-> [pl EXCEPT !.queue = Tail(@)], st |-> st]}

\* Faulty variant of get_proxy: the entries skipped because of exclude_ids are
\* not put back.
get_proxy_dropping(pl, st, exclude_ids) ==
    LET g == get_loop(pl.queue, exclude_ids, pl.failed, 0, max_attempts(pl.queue))
    IN IF g.empty
       THEN {[proxy |-> NoProxy, pool |-> f.pool, st |-> f.st] :
                f \in RefreshOutcomes(pl, st)}
       ELSE {[proxy |-> g.proxy,
              pool |-> [pl EXCEPT !.queue = SelectSeq(g.queue, LAMBDA p : p \notin exclude_ids)],
              st |-> st]}

\* Faulty variant of get_proxy: the entries whose id is in the fail-set are
\* taken out of the queue.
get_proxy_failed_dropped(pl, st, exclude_ids) ==
    LET g == get_loop(pl.queue, exclude_ids, pl.failed, 0, max_attempts(pl.queue))
    IN IF g.empty
       THEN {[proxy |-> NoProxy, pool |-> f.pool, st |-> f.st] :
                f \in RefreshOutcomes(pl, st)}
       ELSE {[proxy |-> g.proxy,
              pool |-> [pl EXCEPT !.queue = SelectSeq(g.queue, LAMBDA p : p \notin pl.failed)],
              st |-> st]}

\* get_proxy(exclude_ids): the entry returned (or NoProxy) with the pool and the
\* store after the call, for every outcome of the refresh it may make. On
\* Empty the pool is refreshed and the loop left, so the call returns None.
get_proxy(pl, st, exclude_ids) ==
    LET g == get_loop(pl.queue, exclude_ids, pl.failed, 0, max_attempts(pl.queue))
    IN IF g.empty
       THEN {[proxy |-> NoProxy, pool |-> f.pool, st |-> f.st] :
                f \in RefreshOutcomes(pl, st)}
       ELSE {[proxy |-> g.proxy, pool |-> [pl EXCEPT !.queue = g.queue], st |-> st]}

\* Faulty variant of return_proxy: a second failure of the same id before the
\* flush is not counted.
return_proxy_once(pl, id, success) ==
    IF success
    THEN [pl EXCEPT !.marks = @ \cup {id},
                    !.queue = IF id \notin pl.failed THEN Append(@, id) ELSE @]
    ELSE [pl EXCEPT !.failed = @ \cup {id}, !.errors[id] = 1]

\* return_proxy(proxy, success). On success the id is marked and the entry
\* goes back in the queue unless its id is in the fail-set; on failure the id
\* joins the fail-set and its pending error increments go up by one, and the
\* entry is not enqueued.
return_proxy(pl, id, success) ==
    IF success
    THEN [pl EXCEPT !.marks = @ \cup {id},
                    !.queue = IF id \notin pl.failed THEN Append(@, id) ELSE @]
    ELSE [pl EXCEPT !.failed = @ \cup {id}, !.errors[id] = @ + 1]

\* The releases `rel` since the last flush, with one more.
Released(rel, id, success) ==
    IF success
    THEN [rel EXCEPT !.ok = @ + 1, !.ok_ids = @ \cup {id}]
    ELSE [rel EXCEPT !.failed[id] = @ + 1]

\* f[1] + ... + f[n]
RECURSIVE SumTo(_, _)
SumTo(f, n) == IF n = 0 THEN 0 ELSE f[n] + SumTo(f, n - 1)

\* Entries lent out and releases not yet flushed.
InFlight ==
    Cardinality({c \in Clients : lent[c] # NoProxy})
    + released.ok + SumTo(released.failed, NumProxies)

\* for _ in range(error_count): increment_proxy_error(proxy_id). The store
\* after the k calls, the calls made and the calls that returned True.
RECURSIVE increment_times(_, _, _)
increment_times(st, id, k) ==
    IF k = 0 THEN [st |-> st, calls |-> 0, ok |-> 0]
    ELSE LET r == increment_proxy_error(st, id)
             rest == increment_times(r.st, id, k - 1)
         IN [st |-> rest.st, calls |-> rest.calls + 1,
             ok |-> rest.ok + (IF r.ok THEN 1 ELSE 0)]

\* The error updates of _process_batch_updates for the ids from `id` on: per
\* id, the calls made and the calls that returned True.
RECURSIVE flush_errors(_, _, _)
flush_errors(st, pending, id) ==
    IF id > NumProxies
    THEN [st |-> st, calls |-> [p \in Proxies |-> 0], ok |-> [p \in Proxies |-> 0]]
    ELSE LET r == increment_times(st, id, pending[id])
             rest == flush_errors(r.st, pending, id + 1)
         IN [st |-> rest.st,
             calls |-> [rest.calls EXCEPT ![id] = r.calls],
             ok |-> [rest.ok EXCEPT ![id] = r.ok]]

\* Faulty variant of flush_success: the loop stops after its first call.
flush_success_first(st, ids, id) ==
    IF ids = {} THEN [st |-> st, calls |-> 0]
    ELSE [st |-> update_proxy_last_used(st, CHOOSE p \in ids : TRUE).st, calls |-> 1]

\* The success updates of _process_batch_updates for the ids from `id` on: one
\* update_proxy_last_used per id of the set.
RECURSIVE flush_success(_, _, _)
flush_success(st, ids, id) ==
    IF id > NumProxies THEN [st |-> st, calls |-> 0]
    ELSE IF id \notin ids THEN flush_success(st, ids, id + 1)
    ELSE LET r == update_proxy_last_used(st, id)
             rest == flush_success(r.st, ids, id + 1)
         IN [st |-> rest.st, calls |-> rest.calls + 1]

\* ---------------------------------------------------- the pool's operations

\* The pool after an operation.
SetPool(pl) ==
    /\ available_proxies' = pl.queue
    /\ failed_proxies' = pl.failed
    /\ pending_error_updates' = pl.errors
    /\ pending_success_updates' = pl.marks

\* The store after a pool operation; its history is of direct calls only.
StoreAfter(st) ==
    /\ proxies' = st.proxies
    /\ circuit_breaker' = st.cb
    /\ schema' = st.schema
    /\ UNCHANGED <<dbUp, last_used_exists, now, last_call>>

\* Client c calls get_proxy(exclude_ids).
GetProxyExcluding(c, exclude_ids) ==
    /\ lent[c] = NoProxy
    /\ InFlight < MaxPending
    /\ \E g \in get_proxy(Pool, Store, exclude_ids) :
          /\ SetPool(g.pool)
          /\ lent' = [lent EXCEPT ![c] = g.proxy]
          /\ last_op' = [op |-> "get_proxy", proxy |-> g.proxy,
                         exclude_ids |-> exclude_ids]
          /\ StoreAfter(g.st)
    /\ UNCHANGED <<released, fetchVars>>

GetProxy(c) == \E exclude_ids \in SUBSET Proxies : GetProxyExcluding(c, exclude_ids)

\* Client c calls return_proxy(proxy, success) with the entry it was lent.
ReturnProxyAs(c, success) ==
    /\ lent[c] # NoProxy
    /\ SetPool(return_proxy(Pool, lent[c], success))
    /\ released' = Released(released, lent[c], success)
    /\ last_op' = [op |-> "return_proxy", id |-> lent[c], success |-> success]
    /\ lent' = [lent EXCEPT ![c] = NoProxy]
    /\ UNCHANGED <<storeVars, fetchVars>>

ReturnProxy(c) == \E success \in BOOLEAN : ReturnProxyAs(c, success)

\* force_refresh(), or the worker's periodic _refresh_pool() when its time
\* checks pass (last_refresh and the clock readings are inputs).
RefreshPool ==
    /\ \E f \in RefreshOutcomes(Pool, Store) :
          /\ SetPool(f.pool)
          /\ StoreAfter(f.st)
    /\ last_op' = NoFlush
    /\ UNCHANGED <<lent, released, fetchVars>>

\* _check_pool_health: a queue below min_pool_size is refreshed.
CheckPoolHealth ==
    /\ \E f \in IF Len(available_proxies) < MinPoolSize
                THEN RefreshOutcomes(Pool, Store)
                ELSE {[pool |-> Pool, st |-> Store]} :
          /\ SetPool(f.pool)
          /\ StoreAfter(f.st)
    /\ last_op' = NoFlush
    /\ UNCHANGED <<lent, released, fetchVars>>

\* Faulty variant of ProcessBatchUpdates: the increments whose store call
\* failed are kept for the next flush.
ProcessBatchUpdatesKeepingFailed ==
    /\ \A p \in Proxies : proxies[p].error_count + pending_error_updates[p] <= MaxErrorCount
    /\ LET e == flush_errors(Store, pending_error_updates, 1)
           u == flush_success(e.st, pending_success_updates, 1)
       IN /\ StoreAfter(u.st)
          /\ last_op' = [op |-> "flush", error_calls |-> e.calls, error_ok |-> e.ok,
                         success_calls |-> u.calls, released |-> released,
                         store_ok |-> get_connection_ok /\ CBAdmits(circuit_breaker, now)]
          /\ pending_error_updates' = [p \in Proxies |-> pending_error_updates[p] - e.ok[p]]
    /\ pending_success_updates' = {}
    /\ released' = NoReleases
    /\ UNCHANGED <<available_proxies, failed_proxies, lent, fetchVars>>

\* _process_batch_updates: the pending error increments, then the pending
\* last_used marks, are written to the store, and both are cleared. The
\* history keeps, per id, the increment_proxy_error calls made and those that
\* returned True, the update_proxy_last_used calls made, the releases the
\* flush covers, and whether the store was answering (database up, breaker
\* admitting calls).
ProcessBatchUpdates ==
    /\ \A p \in Proxies : proxies[p].error_count + pending_error_updates[p] <= MaxErrorCount
    /\ LET e == flush_errors(Store, pending_error_updates, 1)
           u == flush_success(e.st, pending_success_updates, 1)
       IN /\ StoreAfter(u.st)
          /\ last_op' = [op |-> "flush", error_calls |-> e.calls, error_ok |-> e.ok,
                         success_calls |-> u.calls, released |-> released,
                         store_ok |-> get_connection_ok /\ CBAdmits(circuit_breaker, now)]
    /\ pending_error_updates' = [p \in Proxies |-> 0]
    /\ pending_success_updates' = {}
    /\ released' = NoReleases
    /\ UNCHANGED <<available_proxies, failed_proxies, lent, fetchVars>>

\* reset_failed_proxies()
ResetFailedProxies ==
    /\ failed_proxies' = {}
    /\ last_op' = NoFlush
    /\ UNCHANGED <<available_proxies, pending_error_updates, pending_success_updates,
                   lent, released>>
    /\ UNCHANGED <<storeVars, fetchVars>>

\* ProxyPool.__init__ over a new DatabaseManager: an empty pool, refreshed
\* once. The table has the schema of the documentation (with last_used) and
\* rows not yet used.
InitPool ==
    /\ proxies = [p \in Proxies |-> [status |-> "active", error_count |-> 0]]
    /\ dbUp \in BOOLEAN
    /\ last_used_exists = TRUE
    /\ now = 0
    /\ last_call = NoCall
    /\ pending_error_updates = [p \in Proxies |-> 0]
    /\ pending_success_updates = {}
    /\ lent = [c \in Clients |-> NoProxy]
    /\ released = NoReleases
    /\ last_op = NoFlush
    /\ IdleFetch
    /\ \E order \in Orderings(proxies) :
          LET f == refresh_pool(EmptyPool,
                                [proxies |-> proxies, cb |-> NewBreaker,
                                 schema |-> NewSchema],
                                order, order)
          IN /\ circuit_breaker = f.st.cb
             /\ schema = f.st.schema
             /\ available_proxies = f.pool.queue
             /\ failed_proxies = f.pool.failed

\* The pool under its callers, the worker and the maintenance endpoints, over
\* a database that answers throughout or not at all.
NextPool ==
    \/ \E c \in Clients : GetProxy(c)
    \/ \E c \in Clients : ReturnProxy(c)
    \/ RefreshPool
    \/ CheckPoolHealth
    \/ ProcessBatchUpdates
    \/ ResetFailedProxies

SpecPool == InitPool /\ [][NextPool]_vars

\* The writeback of one caller's releases, over a database that may stop
\* answering and answer again at any moment.
NextFlush ==
    \/ GetProxyExcluding(1, {})
    \/ ReturnProxy(1)
    \/ RefreshPool
    \/ ProcessBatchUpdates
    \/ ResetFailedProxies
    \/ DbToggle

SpecFlush == InitPool /\ [][NextFlush]_vars

\* ------------------------------------------- EnhancedProxyRetryManager

\* What a step of the fetch with request id r works on: the locals of the
\* call, the pool, the manager's request sets, and the history of the pool
\* (the releases, the last operation, the entry r holds).
Context(r) ==
    [f |-> fetch[r], pool |-> Pool, rfp |-> request_failed_proxies,
     rel |-> released, last |-> last_op, held |-> lent[r]]

\* mark_proxy_failed_for_request(request_id, proxy): the id joins the
\* request's set and the entry is released as failed.
mark_proxy_failed_for_request(r, c, id) ==
    [c EXCEPT !.rfp[r] = @ \cup {id},
              !.pool = return_proxy(@, id, FALSE),
              !.rel = Released(@, id, FALSE),
              !.last = [op |-> "return_proxy", id |-> id, success |-> FALSE],
              !.held = NoProxy]

\* mark_proxy_success_for_request(request_id, proxy): the entry is released as
\* successful and the request's set is deleted.
mark_proxy_success_for_request(r, c, id) ==
    [c EXCEPT !.pool = return_proxy(@, id, TRUE),
              !.rfp[r] = {},
              !.rel = Released(@, id, TRUE),
              !.last = [op |-> "return_proxy", id |-> id, success |-> TRUE],
              !.held = NoProxy]

\* ------------------------------------------------------ the fetch executor

Methods == {"newspaper", "newsplease"}

\* The status codes of the responses: a success, a client error, a server error.
Statuses == {200, 404, 503}

\* What follows a response of status 200: an article is extracted; or an
\* exception is raised before the proxy is marked as successful (empty HTML,
\* the parser raising, no article on the direct news-please path); or, in
\* run_newsplease_scraper, after it (no article, an article without title, an
\* unexpected article type).
Parses(method) ==
    IF method = "newspaper" THEN {"article", "error"} ELSE {"article", "error", "late_error"}

\* Faulty variant of use_proxy_this_attempt: the last attempt is proxied too.
use_proxy_always(use_proxy, attempt) == use_proxy

\* use_proxy_this_attempt = use_proxy and attempt < max_retries
use_proxy_this_attempt(use_proxy, attempt) == use_proxy /\ attempt < MaxRetries

\* response.status_code >= 400 and response.status_code < 500
IsClientError(status) == status >= 400 /\ status < 500

\* The truth value of a requests.Response, which `e.response and ...` tests:
\* Response.__bool__ is Response.ok, false for the statuses on which
\* raise_for_status raises.
ResponseTruth(status) == status < 400

\* The test of the HTTPError clause that ends the fetch without a retry.
NoRetryOnStatus(method, status) ==
    IF method = "newspaper"
    THEN IsClientError(status)
    ELSE ResponseTruth(status) /\ IsClientError(status)

\* Faulty variant of record_request: the metric is not kept.
record_request_dropped(ring, metric) == ring

\* Faulty variant of record_request: the ring grows without bound.
record_request_unbounded(ring, metric) == Append(ring, metric)

\* metrics_collector.record_request(metric), metrics being enabled (the
\* default of metrics_enabled): the metric is appended to the ring, a deque of
\* maxlen max_memory_entries, which drops its leftmost entry when full.
record_request(ring, metric) ==
    IF Len(ring) >= MaxMemoryEntries
    THEN Append(Tail(ring), metric)
    ELSE Append(ring, metric)

\* The retention pass of the cleanup worker: entries are popped from the left
\* of the ring while the leftmost one is older than the cutoff.
RECURSIVE popleft_old(_, _)
popleft_old(ring, cutoff_time) ==
    IF ring # <<>> /\ Head(ring).timestamp < cutoff_time
    THEN popleft_old(Tail(ring), cutoff_time)
    ELSE ring

\* The metrics of the ring that carry request id r.
MetricsOf(r) == SelectSeq(recent_requests, LAMBDA m : m.request_id = r)

\* `if selected_proxy: mark_proxy_success_for_request(...)`
MarkSuccess(r, c) ==
    IF c.f.selected_proxy = NoProxy THEN c
    ELSE mark_proxy_success_for_request(r, c, c.f.selected_proxy)

\* `if selected_proxy: mark_proxy_failed_for_request(...)`
MarkFailed(r, c) ==
    IF c.f.selected_proxy = NoProxy THEN c
    ELSE mark_proxy_failed_for_request(r, c, c.f.selected_proxy)

\* The end of an except clause that retries: the loop is left after the last
\* attempt (and the fetch raises "All attempts failed"), else goes on.
AfterError(f, error_type) ==
    IF f.attempt = MaxRetries
    THEN [f EXCEPT !.error_type = error_type, !.pc = "raised"]
    ELSE [f EXCEPT !.error_type = error_type, !.pc = "attempt", !.attempt = @ + 1]

\* An except clause that retries: error_type is set, the selected proxy, if
\* any, is marked as failed, and the loop goes on or is left.
Retry(r, c, error_type) ==
    LET d == MarkFailed(r, c)
    IN [d EXCEPT !.f = AfterError(d.f, error_type)]

\* The state after a step of request r that ends in context c.
SetContext(r, c) ==
    /\ fetch' = [fetch EXCEPT ![r] = c.f]
    /\ SetPool(c.pool)
    /\ request_failed_proxies' = c.rfp
    /\ released' = c.rel
    /\ last_op' = c.last
    /\ lent' = [lent EXCEPT ![r] = c.held]

\* scrape_with_newspaper / scrape_with_newsplease is called with a new request
\* id; use_proxy is request.use_proxy or the configuration's proxy_enabled.
StartFetch(r) ==
    /\ fetch[r].pc = "idle"
    /\ \E method \in Methods, use_proxy \in BOOLEAN :
          fetch' = [fetch EXCEPT ![r] = [NoFetch EXCEPT !.pc = "attempt",
                                                        !.method = method,
                                                        !.use_proxy = use_proxy]]
    /\ UNCHANGED <<storeVars, poolVars, request_failed_proxies, recent_requests, worker, callVars, redis>>

\* The head of the loop body: attempt_count is set and the attempt's proxy
\* chosen. `database` is config_store["database"] as the attempt reads it.
BeginAttempt(r) ==
    LET c == Context(r)
        f == [c.f EXCEPT !.pc = "http", !.attempt_count = c.f.attempt + 1,
                         !.status = None]
    IN /\ c.f.pc = "attempt"
       /\ \E database \in BOOLEAN :
             IF use_proxy_this_attempt(f.use_proxy, f.attempt) /\ database
             THEN \E g \in get_proxy(c.pool, Store, c.rfp[r]) :
                     /\ SetContext(r, [c EXCEPT !.f = [f EXCEPT !.selected_proxy = g.proxy],
                                                !.pool = g.pool,
                                                !.last = [op |-> "get_proxy",
                                                          proxy |-> g.proxy,
                                                          exclude_ids |-> c.rfp[r]],
                                                !.held = g.proxy])
                     /\ StoreAfter(g.st)
             ELSE /\ SetContext(r, [c EXCEPT !.f = [f EXCEPT !.selected_proxy = NoProxy]])
                  /\ UNCHANGED storeVars
       /\ UNCHANGED <<recent_requests, worker, callVars, redis>>

\* The exceptions of the HTTP request that the first three except clauses
\* catch. A ProxyError needs a proxy; the direct news-please path
\* (NewsPlease.from_urls) lets none of them through.
TransportErrors(f) ==
    IF f.selected_proxy # NoProxy THEN {"ProxyError", "Timeout", "ConnectionError"}
    ELSE IF f.method = "newspaper" THEN {"Timeout", "ConnectionError"}
    ELSE {}

\* The statuses the attempt may see: the direct news-please path makes no
\* request of its own, it is given an article or none.
StatusesSeen(f) ==
    IF f.method = "newsplease" /\ f.selected_proxy = NoProxy
    THEN {c \in Statuses : ResponseTruth(c)}
    ELSE Statuses

\* The HTTP request raises ProxyError, Timeout or ConnectionError.
RequestFails(r) ==
    /\ fetch[r].pc = "http"
    /\ \E error_type \in TransportErrors(fetch[r]) :
          SetContext(r, Retry(r, Context(r), error_type))
    /\ UNCHANGED <<storeVars, recent_requests, worker, callVars, redis>>

\* The HTTP request is answered. A status of 400 and above raises HTTPError
\* (raise_for_status), which ends the fetch or is retried; after a success the
\* article is extracted, the proxy marked as successful and the result
\* returned, unless an exception goes to the last except clause.
Respond(r) ==
    LET c == Context(r)
        f == c.f
    IN /\ f.pc = "http"
       /\ \E status \in StatusesSeen(f), parsed \in Parses(f.method) :
             LET seen == [c EXCEPT !.f.status = status]
             IN IF ~ResponseTruth(status)
                THEN IF NoRetryOnStatus(f.method, status)
                     THEN SetContext(r, [seen EXCEPT !.f.error_type = "HTTPError",
                                                     !.f.pc = "raised"])
                     ELSE SetContext(r, Retry(r, seen, "HTTPError"))
                ELSE IF parsed = "article"
                     THEN SetContext(r, [MarkSuccess(r, seen) EXCEPT !.f.pc = "returned"])
                ELSE IF parsed = "late_error"
                     THEN SetContext(r, Retry(r, MarkSuccess(r, seen), "UnknownError"))
                ELSE SetContext(r, Retry(r, seen, "UnknownError"))
       /\ UNCHANGED <<storeVars, recent_requests, worker, callVars, redis>>

\* The metric of the fetch with request id r: on the success path error_type is
\* left at its default; on the failure path scrape_with_newspaper passes
\* `error_type or "UnknownError"`, scrape_with_newsplease error_type.
Metric(r) ==
    LET f == fetch[r]
    IN [timestamp |-> now,
        request_id |-> r, method |-> f.method, success |-> f.pc = "returned",
        attempt_count |-> f.attempt_count, proxy_used |-> f.selected_proxy,
        error_type |-> IF f.pc = "returned" THEN "None"
                       ELSE IF f.method = "newspaper" /\ f.error_type = "None"
                            THEN "UnknownError"
                            ELSE f.error_type]

\* The scraper returned or raised: scrape_with_* records the request's metric
\* and answers.
Finish(r) ==
    /\ fetch[r].pc \in {"returned", "raised"}
    /\ recent_requests' = record_request(recent_requests, Metric(r))
    /\ fetch' = [fetch EXCEPT ![r].pc = "done"]
    /\ UNCHANGED <<storeVars, poolVars, request_failed_proxies, worker, callVars, redis>>

\* The service at start: the store, the pool after its first refresh, no fetch.
Init == InitPool

\* Concurrent fetches over the pool, between two runs of its worker.
Next ==
    \/ \E r \in Clients : StartFetch(r)
    \/ \E r \in Clients : BeginAttempt(r)
    \/ \E r \in Clients : RequestFails(r)
    \/ \E r \in Clients : Respond(r)
    \/ \E r \in Clients : Finish(r)

Spec == Init /\ [][Next]_vars

\* One fetch while the pool's background worker runs: its periodic refresh,
\* its batch flush and its health check may come between any two steps of the
\* fetch.
NextWorker ==
    \/ StartFetch(1)
    \/ BeginAttempt(1)
    \/ RequestFails(1)
    \/ Respond(1)
    \/ Finish(1)
    \/ RefreshPool
    \/ ProcessBatchUpdates
    \/ CheckPoolHealth

SpecWorker == Init /\ [][NextWorker]_vars

\* One fetch and the pool's refreshes while the database stops answering and
\* answers again: the store calls of the refreshes open the breaker.
NextOutage ==
    \/ StartFetch(1)
    \/ BeginAttempt(1)
    \/ RequestFails(1)
    \/ Respond(1)
    \/ Finish(1)
    \/ RefreshPool
    \/ DbToggle

SpecOutage == Init /\ [][NextOutage]_vars

\* ---------------------------------------- the background thread and stop()

\* _refresh_pool as a step of a thread of the pool.
PoolRefresh ==
    /\ \E f \in RefreshOutcomes(Pool, Store) :
          /\ SetPool(f.pool)
          /\ StoreAfter(f.st)
    /\ last_op' = NoFlush
    /\ UNCHANGED <<lent, released>>

\* _process_batch_updates as a step of a thread of the pool.
BatchFlush ==
    /\ \A p \in Proxies : proxies[p].error_count + pending_error_updates[p] <= MaxErrorCount
    /\ LET e == flush_errors(Store, pending_error_updates, 1)
           u == flush_success(e.st, pending_success_updates, 1)
       IN /\ StoreAfter(u.st)
          /\ last_op' = [op |-> "flush", error_calls |-> e.calls, error_ok |-> e.ok,
                         success_calls |-> u.calls, released |-> released,
                         store_ok |-> get_connection_ok /\ CBAdmits(circuit_breaker, now)]
    /\ pending_error_updates' = [p \in Proxies |-> 0]
    /\ pending_success_updates' = {}
    /\ released' = NoReleases
    /\ UNCHANGED <<available_proxies, failed_proxies, lent>>

\* The steps of the worker and of stop() leave the fetches alone.
NoFetchStep == UNCHANGED <<fetch, request_failed_proxies, recent_requests, callVars, redis>>

\* `while not self._stop_event.is_set()`, reached at the start and when
\* _stop_event.wait(30) returns: the thread ends once the event is set.
WorkerLoop ==
    /\ worker.pc = "wait"
    /\ worker' = [worker EXCEPT !.pc = IF worker.stop_event THEN "exited" ELSE "refresh",
                                !.did = "none"]
    /\ UNCHANGED <<storeVars, poolVars>>
    /\ NoFetchStep

\* The periodic refresh of the iteration, made or not according to the clock.
WorkerRefresh ==
    /\ worker.pc = "refresh"
    /\ \/ /\ PoolRefresh
          /\ worker' = [worker EXCEPT !.pc = "flush", !.did = "refresh"]
       \/ /\ worker' = [worker EXCEPT !.pc = "flush", !.did = "skip"]
          /\ UNCHANGED <<storeVars, poolVars>>
    /\ NoFetchStep

\* The batch flush of the iteration, made or not according to the clock.
WorkerFlush ==
    /\ worker.pc = "flush"
    /\ \/ /\ BatchFlush
          /\ worker' = [worker EXCEPT !.pc = "health", !.did = "flush"]
       \/ /\ worker' = [worker EXCEPT !.pc = "health", !.did = "skip"]
          /\ UNCHANGED <<storeVars, poolVars>>
    /\ NoFetchStep

\* _check_pool_health, then _stop_event.wait(30).
WorkerHealth ==
    /\ worker.pc = "health"
    /\ IF Len(available_proxies) < MinPoolSize
       THEN /\ PoolRefresh
            /\ worker' = [worker EXCEPT !.pc = "wait", !.did = "refresh"]
       ELSE /\ worker' = [worker EXCEPT !.pc = "wait", !.did = "skip"]
            /\ UNCHANGED <<storeVars, poolVars>>
    /\ NoFetchStep

\* stop(): the stop event is set.
StopSet ==
    /\ worker.stop = "none"
    /\ worker' = [worker EXCEPT !.stop_event = TRUE, !.stop = "join"]
    /\ UNCHANGED <<storeVars, poolVars>>
    /\ NoFetchStep

\* stop(): join(timeout=10) returns, the thread having ended, or the timeout
\* having passed over a thread that is in the middle of an iteration (a
\* thread in _stop_event.wait ends at once).
StopJoin ==
    /\ worker.stop = "join"
    /\ worker.pc # "wait"
    /\ worker' = [worker EXCEPT !.stop = "flush"]
    /\ UNCHANGED <<storeVars, poolVars>>
    /\ NoFetchStep

\* stop(): the last _process_batch_updates, and the return.
StopFlush ==
    /\ worker.stop = "flush"
    /\ BatchFlush
    /\ worker' = [worker EXCEPT !.stop = "returned"]
    /\ NoFetchStep

\* The pool under one caller, its background thread and stop().
NextStop ==
    \/ GetProxyExcluding(1, {})
    \/ ReturnProxy(1)
    \/ WorkerLoop
    \/ WorkerRefresh
    \/ WorkerFlush
    \/ WorkerHealth
    \/ StopSet
    \/ StopJoin
    \/ StopFlush

SpecStop == Init /\ [][NextStop]_vars

\* -------------------------------------------------- the pool's lock (_lock)

\* The two maintenance operations of the thread, and where the thread goes
\* after each.
LockedOps == {"refresh", "flush"}

AfterOp(op) == IF op = "refresh" THEN "flush" ELSE "health"

\* `with self._lock:` of _refresh_pool and of _process_batch_updates: the
\* thread takes the lock, when the clock says the operation is due.
LockEnter(op) ==
    /\ worker.pc = op
    /\ worker.lock = "free"
    /\ \/ worker' = [worker EXCEPT !.pc = op \o "_locked", !.lock = "worker"]
       \/ worker' = [worker EXCEPT !.pc = AfterOp(op), !.did = "skip"]
    /\ UNCHANGED <<storeVars, poolVars>>
    /\ NoFetchStep

\* Inside the `with` block the operation calls the store:
\* db_manager.get_proxies, or increment_proxy_error / update_proxy_last_used.
StoreCall(op) ==
    /\ worker.pc = op \o "_locked"
    /\ worker' = [worker EXCEPT !.pc = op \o "_io", !.io = TRUE]
    /\ UNCHANGED <<storeVars, poolVars>>
    /\ NoFetchStep

\* The store answers, the queue and the maps are updated, and the `with`
\* block ends: the lock is free and a caller that waited for it goes on.
LockLeave(op) ==
    /\ worker.pc = op \o "_io"
    /\ IF op = "refresh" THEN PoolRefresh ELSE BatchFlush
    /\ worker' = [worker EXCEPT !.pc = AfterOp(op), !.did = op, !.io = FALSE,
                                !.lock = "free", !.blocked = FALSE]
    /\ NoFetchStep

\* A get_proxy or return_proxy call reaches its own `with self._lock:`
\* while the thread holds the lock, and waits.
CallerBlocks ==
    /\ worker.lock # "free"
    /\ ~worker.blocked
    /\ worker' = [worker EXCEPT !.blocked = TRUE]
    /\ UNCHANGED <<storeVars, poolVars>>
    /\ NoFetchStep

\* get_proxy and return_proxy run with the lock, so only when it is free.
CallerGetProxy == worker.lock = "free" /\ GetProxyExcluding(1, {})

CallerReturnProxy == worker.lock = "free" /\ ReturnProxy(1)

\* The pool under one caller and its background thread, with the lock.
NextLock ==
    \/ CallerGetProxy
    \/ CallerReturnProxy
    \/ CallerBlocks
    \/ WorkerLoop
    \/ \E op \in LockedOps : LockEnter(op)
    \/ \E op \in LockedOps : StoreCall(op)
    \/ \E op \in LockedOps : LockLeave(op)
    \/ WorkerHealth

SpecLock == Init /\ [][NextLock]_vars

\* ------------------------------- threads, locks and the connection pool

\* What a thread may be doing: ProxyPool.get_proxy, _refresh_pool (the
\* worker's, or force_refresh), _process_batch_updates, a DatabaseManager
\* operation called on its own (reset_proxy_errors, test_connection, ...),
\* and a `with db_manager.get_connection()` of an endpoint.
CallOps == {"get_proxy", "refresh", "flush", "store", "direct"}

\* The operations that start with `with self._lock:` of the pool.
TakesPoolLock(op) == op \in {"get_proxy", "refresh", "flush"}

\* The operations whose SQL runs inside circuit_breaker.call.
Wrapped(op) == op # "direct"

\* Faulty variant of pool_lock_admits: a plain Lock.
pool_lock_admits_plain(owner, t) == owner = NoThread

\* threading.RLock: free, or held by the thread that asks.
pool_lock_admits(owner, t) == owner \in {NoThread, t}

\* Faulty variant of lock_during_call: the breaker's lock is released after
\* the check of the state.
lock_released_for_call(t) == NoThread

\* The holder of the breaker's lock while the wrapped function runs: the
\* function is called inside `with self._lock:`.
lock_during_call(t) == t

\* Where a thread goes once it has entered the pool's lock for the depth-th
\* time: get_proxy returns an entry or, the queue being empty, calls
\* _refresh_pool; _refresh_pool returns at once (not due) or calls the
\* store; _process_batch_updates has updates to send or none.
AfterPoolLock(op, depth) ==
    IF op = "get_proxy" /\ depth = 1 THEN {"pool", "unwind"}
    ELSE IF op = "get_proxy" THEN {"breaker"}
    ELSE {"breaker", "unwind"}

\* Where a thread goes after a store call: the flush has further updates or
\* not; a refresh that added too few entries clears the fail-set and calls
\* itself; every other operation is over.
AfterCall(op, depth) ==
    IF op = "flush" THEN {"breaker", "unwind"}
    ELSE IF op \in {"get_proxy", "refresh"} /\ depth < MaxDepth THEN {"pool", "unwind"}
    ELSE {"unwind"}

\* Where an exception of get_connection or of the body goes: to the except
\* clause of circuit_breaker.call, or to the endpoint.
AfterConnection(op) == IF Wrapped(op) THEN "leave" ELSE "unwind"

\* A thread starts an operation.
BeginCall(t) ==
    /\ threads[t].pc = "idle"
    /\ \E op \in CallOps :
          threads' = [threads EXCEPT ![t] =
                         [IdleThread EXCEPT !.op = op,
                                            !.pc = IF TakesPoolLock(op) THEN "pool"
                                                   ELSE IF Wrapped(op) THEN "breaker"
                                                   ELSE "connect"]]
    /\ UNCHANGED <<storeVars, poolVars, fetch, request_failed_proxies,
                   recent_requests, worker, redis, locks, connection_pool>>

\* `with self._lock:` of the pool: the thread enters the lock.
AcquirePool(t) ==
    LET th == threads[t]
    IN /\ th.pc = "pool"
       /\ pool_lock_admits(locks.pool, t)
       /\ locks' = [locks EXCEPT !.pool = t]
       /\ \E next \in AfterPoolLock(th.op, th.depth + 1) :
             /\ next = "pool" => th.depth + 1 < MaxDepth
             /\ threads' = [threads EXCEPT ![t].depth = th.depth + 1, ![t].pc = next]
       /\ UNCHANGED <<storeVars, poolVars, fetch, request_failed_proxies,
                      recent_requests, worker, redis, connection_pool>>

\* circuit_breaker.call: the thread takes the breaker's lock and the state is
\* checked: an OPEN breaker raises (the lock is released, the operation's
\* except clause answers), else the wrapped function is called.
EnterBreaker(t) ==
    LET th == threads[t]
    IN /\ th.pc = "breaker"
       /\ locks.breaker = NoThread
       /\ IF CBAdmits(circuit_breaker, now)
          THEN /\ circuit_breaker' = CBEntered(circuit_breaker)
               /\ locks' = [locks EXCEPT !.breaker = lock_during_call(t)]
               /\ threads' = [threads EXCEPT ![t].pc = "connect"]
          ELSE /\ \E next \in AfterCall(th.op, th.depth) :
                     threads' = [threads EXCEPT ![t].pc = next, ![t].rejected = TRUE]
               /\ UNCHANGED <<circuit_breaker, locks>>
       /\ UNCHANGED <<proxies, dbUp, last_used_exists, schema, now, last_call>>
       /\ UNCHANGED <<poolVars, fetch, request_failed_proxies, recent_requests,
                      worker, redis, connection_pool>>

\* get_connection: `if not self.connection_pool: with self._lock:`.
GetConnection(t) ==
    /\ threads[t].pc = "connect"
    /\ IF connection_pool.gen # 0
       THEN /\ threads' = [threads EXCEPT ![t].pc = "getconn"]
            /\ UNCHANGED locks
       ELSE /\ locks.creation = NoThread
            /\ locks' = [locks EXCEPT !.creation = t]
            /\ threads' = [threads EXCEPT ![t].pc = "creating"]
    /\ UNCHANGED <<storeVars, poolVars, fetch, request_failed_proxies,
                   recent_requests, worker, redis, connection_pool>>

\* get_connection, in the creation lock: the pool is created unless another
\* thread has created it; a database that does not answer makes
\* _create_connection_pool return False, and get_connection raises.
Create(t) ==
    LET th == threads[t]
    IN /\ th.pc = "creating"
       /\ locks' = [locks EXCEPT !.creation = NoThread]
       /\ IF connection_pool.gen # 0
          THEN /\ threads' = [threads EXCEPT ![t].pc = "getconn"]
               /\ UNCHANGED connection_pool
          ELSE IF dbUp
          THEN /\ connection_pool' = [gen |-> connection_pool.made + 1, out |-> 0,
                                       made |-> connection_pool.made + 1]
               /\ threads' = [threads EXCEPT ![t].pc = "getconn"]
          ELSE /\ threads' = [threads EXCEPT ![t].pc = AfterConnection(th.op),
                                              ![t].raised = TRUE]
               /\ UNCHANGED connection_pool
       /\ UNCHANGED <<storeVars, poolVars, fetch, request_failed_proxies,
                      recent_requests, worker, redis>>

\* get_connection: `connection = self.connection_pool.getconn()`. It raises
\* when disconnect() has set connection_pool to None in between, and may
\* raise when the database does not answer.
GetConn(t) ==
    LET th == threads[t]
    IN /\ th.pc = "getconn"
       /\ \E handed \in IF connection_pool.gen = 0 THEN {FALSE}
                         ELSE IF dbUp THEN {TRUE} ELSE BOOLEAN :
             IF handed
             THEN /\ connection_pool' = [connection_pool EXCEPT !.out = @ + 1]
                  /\ threads' = [threads EXCEPT ![t].pc = "body",
                                                 ![t].conn = connection_pool.gen]
             ELSE /\ threads' = [threads EXCEPT ![t].pc = AfterConnection(th.op),
                                                 ![t].raised = TRUE]
                  /\ UNCHANGED connection_pool
       /\ UNCHANGED <<storeVars, poolVars, fetch, request_failed_proxies,
                      recent_requests, worker, redis, locks>>

\* The body of `with self.get_connection() as conn:` ends, normally or by an
\* exception, and the finally clause runs
\* `self.connection_pool.putconn(connection)`: on None it raises
\* AttributeError, on a pool the connection is not of it raises PoolError.
Body(t) ==
    LET th == threads[t]
        returned == connection_pool.gen # 0 /\ th.conn = connection_pool.gen
    IN /\ th.pc = "body"
       /\ connection_pool' = IF returned
                              THEN [connection_pool EXCEPT !.out = @ - 1]
                              ELSE connection_pool
       /\ threads' = [threads EXCEPT ![t].pc = AfterConnection(th.op),
                                      ![t].conn = 0,
                                      ![t].raised = ~dbUp \/ ~returned]
       /\ UNCHANGED <<storeVars, poolVars, fetch, request_failed_proxies,
                      recent_requests, worker, redis, locks>>

\* circuit_breaker.call after the wrapped function: the try branch or the
\* except branch, and the end of `with self._lock:`.
LeaveBreaker(t) ==
    LET th == threads[t]
    IN /\ th.pc = "leave"
       /\ circuit_breaker' = IF th.raised THEN CBOnFailure(circuit_breaker, now)
                              ELSE CBOnSuccess(circuit_breaker)
       /\ locks' = [locks EXCEPT !.breaker = NoThread]
       /\ \E next \in AfterCall(th.op, th.depth) :
             threads' = [threads EXCEPT ![t].pc = next, ![t].raised = FALSE]
       /\ UNCHANGED <<proxies, dbUp, last_used_exists, schema, now, last_call>>
       /\ UNCHANGED <<poolVars, fetch, request_failed_proxies, recent_requests,
                      worker, redis, connection_pool>>

\* The operation returns: every `with self._lock:` of the pool it is in ends.
Unwind(t) ==
    /\ threads[t].pc = "unwind"
    /\ threads' = [threads EXCEPT ![t] = IdleThread]
    /\ locks' = IF threads[t].depth > 0 THEN [locks EXCEPT !.pool = NoThread] ELSE locks
    /\ UNCHANGED <<storeVars, poolVars, fetch, request_failed_proxies,
                   recent_requests, worker, redis, connection_pool>>

\* disconnect(), called when a database configuration is saved: closeall()
\* and connection_pool = None.
Disconnect ==
    /\ connection_pool.gen # 0
    /\ connection_pool.made < MaxPools
    /\ connection_pool' = [connection_pool EXCEPT !.gen = 0, !.out = 0]
    /\ UNCHANGED <<storeVars, poolVars, fetch, request_failed_proxies,
                   recent_requests, worker, redis, threads, locks>>

\* Threads in the operations of the pool and the store, step by step, over a
\* database that may stop answering, with the breaker's clock.
NextCalls ==
    \/ \E t \in Clients : BeginCall(t)
    \/ \E t \in Clients : AcquirePool(t)
    \/ \E t \in Clients : EnterBreaker(t)
    \/ \E t \in Clients : GetConnection(t)
    \/ \E t \in Clients : Create(t)
    \/ \E t \in Clients : GetConn(t)
    \/ \E t \in Clients : Body(t)
    \/ \E t \in Clients : LeaveBreaker(t)
    \/ \E t \in Clients : Unwind(t)
    \/ Disconnect
    \/ DbToggle
    \/ Tick

\* The service at start, before any operation of the store: no connection
\* pool, a new breaker; the table has its documented rows and columns.
InitCalls ==
    /\ proxies = [p \in Proxies |-> [status |-> "active", error_count |-> 0]]
    /\ dbUp \in BOOLEAN
    /\ last_used_exists = TRUE
    /\ now = 0
    /\ last_call = NoCall
    /\ circuit_breaker = NewBreaker
    /\ schema = NewSchema
    /\ IdlePool
    /\ IdleFetch

SpecCalls == InitCalls /\ [][NextCalls]_vars

\* ----------------------------------------------------------- QueueManager

\* The steps of the job queue leave the rest of the service alone.
NoServiceStep ==
    UNCHANGED <<storeVars, poolVars, fetch, request_failed_proxies, recent_requests,
                worker, callVars>>

\* enqueue_job, first await: lpush puts the job at the left of the list.
EnqueuePush(j) ==
    /\ redis.enqueue[j] = "new"
    /\ redis' = [redis EXCEPT !.queue = <<j>> \o @, !.enqueue[j] = "pushed"]
    /\ NoServiceStep

\* enqueue_job, second await: setex writes the job's status PENDING.
EnqueueStatus(j) ==
    /\ redis.enqueue[j] = "pushed"
    /\ redis' = [redis EXCEPT !.status[j] = "pending", !.enqueue[j] = "enqueued"]
    /\ NoServiceStep

\* dequeue_job, first await: brpop takes the job at the right of the list.
DequeuePop ==
    /\ redis.worker.pc = "idle"
    /\ redis.queue # <<>>
    /\ redis' = [redis EXCEPT !.queue = SubSeq(@, 1, Len(@) - 1),
                              !.worker = [job |-> redis.queue[Len(redis.queue)],
                                          pc |-> "popped"]]
    /\ NoServiceStep

\* dequeue_job, second await: setex writes the job's status PROCESSING.
DequeueStatus ==
    /\ redis.worker.pc = "popped"
    /\ redis' = [redis EXCEPT !.status[redis.worker.job] = "processing",
                              !.worker.pc = "processing"]
    /\ NoServiceStep

\* complete_job or fail_job: the job's status is written COMPLETED or FAILED.
FinishJob ==
    /\ redis.worker.pc = "processing"
    /\ \E status \in {"completed", "failed"} :
          redis' = [redis EXCEPT !.status[redis.worker.job] = status,
                                !.worker = [job |-> 0, pc |-> "idle"]]
    /\ NoServiceStep

\* Clients that enqueue jobs and a worker that dequeues and finishes them.
NextQueue ==
    \/ \E j \in Jobs : EnqueuePush(j)
    \/ \E j \in Jobs : EnqueueStatus(j)
    \/ DequeuePop
    \/ DequeueStatus
    \/ FinishJob

SpecQueue == Init /\ [][NextQueue]_vars

\* ------------------------------------------------------- MetricsCollector

\* record_request_metric(...) for a request that made one direct attempt: a
\* RequestMetric stamped with the current time is recorded.
RecordRequest ==
    /\ \E r \in Clients, success \in BOOLEAN :
          recent_requests' =
             record_request(recent_requests,
                            [timestamp |-> now, request_id |-> r, method |-> "newspaper",
                             success |-> success, attempt_count |-> 1,
                             proxy_used |-> NoProxy,
                             error_type |-> IF success THEN "None" ELSE "UnknownError"])
    /\ UNCHANGED <<storeVars, poolVars, fetch, request_failed_proxies, worker, callVars, redis>>

\* One pass of cleanup_worker over the ring.
CleanupPass ==
    /\ recent_requests' = popleft_old(recent_requests, now - MemoryRetention)
    /\ UNCHANGED <<storeVars, poolVars, fetch, request_failed_proxies, worker, callVars, redis>>

\* The clock advances by the retention period.
Elapse ==
    /\ now < MaxTicks * MemoryRetention
    /\ now' = now + MemoryRetention
    /\ UNCHANGED <<proxies, dbUp, last_used_exists, circuit_breaker, schema, last_call>>
    /\ UNCHANGED <<poolVars, fetchVars>>

\* record_request_metric builds the RequestMetric: time.time() is read.
StampMetric(r) ==
    /\ fetch[r].pc = "idle"
    /\ fetch' = [fetch EXCEPT ![r].pc = "stamped", ![r].timestamp = now]
    /\ UNCHANGED <<storeVars, poolVars, request_failed_proxies, recent_requests, worker, callVars, redis>>

\* metrics_collector.record_request(metric): the metric built before is
\* appended to the ring, under the collector's lock.
AppendMetric(r) ==
    /\ fetch[r].pc = "stamped"
    /\ \E success \in BOOLEAN :
          recent_requests' =
             record_request(recent_requests,
                            [timestamp |-> fetch[r].timestamp, request_id |-> r,
                             method |-> "newspaper", success |-> success,
                             attempt_count |-> 1, proxy_used |-> NoProxy,
                             error_type |-> IF success THEN "None" ELSE "UnknownError"])
    /\ fetch' = [fetch EXCEPT ![r] = NoFetch]
    /\ UNCHANGED <<storeVars, poolVars, request_failed_proxies, worker, callVars, redis>>

\* The clock advances by a second, a few times in each retention period.
Moment ==
    /\ now % MemoryRetention < MaxMoments
    /\ now' = now + 1
    /\ UNCHANGED <<proxies, dbUp, last_used_exists, circuit_breaker, schema, last_call>>
    /\ UNCHANGED <<poolVars, fetchVars>>

\* The metrics ring under concurrent record_request_metric calls, each in its
\* two steps, and the cleanup worker.
NextStamps ==
    \/ \E r \in Clients : StampMetric(r)
    \/ \E r \in Clients : AppendMetric(r)
    \/ CleanupPass
    \/ Moment
    \/ Elapse

SpecStamps == Init /\ [][NextStamps]_vars

\* The metrics ring under the recorders and the cleanup worker.
NextMetrics ==
    \/ RecordRequest
    \/ CleanupPass
    \/ Elapse

SpecMetrics == Init /\ [][NextMetrics]_vars

\* ============================================================== properties

\* ---------------------------------------------------------------- SpecPool

\* C1: an entry returned by get_proxy(exclude_ids) has, when it is returned,
\* an id that is neither in exclude_ids nor in failed_proxies.
GetProxyReturnsUsable ==
    (last_op.op = "get_proxy" /\ last_op.proxy # NoProxy)
        => (last_op.proxy \notin last_op.exclude_ids /\ last_op.proxy \notin failed_proxies)

\* get_proxy returned an entry after passing over a queued entry whose id was
\* excluded or failed.
GetProxySkippedSome ==
    /\ last_op.op = "get_proxy" /\ last_op.proxy # NoProxy
    /\ last_op.exclude_ids # {}
    /\ failed_proxies # {}
    /\ \E i \in 1..Len(available_proxies) :
          available_proxies[i] \in last_op.exclude_ids \cup failed_proxies

\* C4 (as stated): after return_proxy(e, success=False), e.id is in
\* failed_proxies and the queue holds no entry for e.id.
FailedReleaseLeavesQueue ==
    (last_op.op = "return_proxy" /\ ~last_op.success)
        => (last_op.id \in failed_proxies /\ ~InQueue(last_op.id, available_proxies))

\* C6 (as stated): a flush makes as many update_proxy_last_used calls as there
\* were return_proxy(_, success=True) calls since the previous flush.
FlushMarksEverySuccess ==
    last_op.op = "flush" => last_op.success_calls = last_op.released.ok

\* C6 (amended): a flush makes one update_proxy_last_used call per distinct
\* proxy id released with success=True since the previous flush, which is at
\* most the number of those releases.
FlushMarksEachSucceededProxyOnce ==
    last_op.op = "flush"
        => /\ last_op.success_calls = Cardinality(last_op.released.ok_ids)
           /\ last_op.success_calls <= last_op.released.ok

\* A flush after two successful releases of two different proxies.
FlushedTwoSucceededProxies ==
    /\ last_op.op = "flush"
    /\ last_op.released.ok = 2
    /\ last_op.success_calls = 2

\* --------------------------------------------------------------- SpecFlush

\* C5 (as stated): per proxy id, the increment_proxy_error calls of a flush
\* that succeeded are as many as the return_proxy(_, success=False) calls for
\* that id since the previous flush.
FlushWritesEveryFailure ==
    last_op.op = "flush"
        => \A p \in Proxies : last_op.error_ok[p] = last_op.released.failed[p]

\* C5 (amended): per proxy id, a flush makes as many increment_proxy_error
\* calls as there were return_proxy(_, success=False) calls for that id since
\* the previous flush, none lost and none twice; all of them succeed when the
\* store is answering, and the ones that fail are not made again.
FlushIssuesOneIncrementPerFailure ==
    last_op.op = "flush"
        => \A p \in Proxies :
              /\ last_op.error_calls[p] = last_op.released.failed[p]
              /\ last_op.error_ok[p] <= last_op.error_calls[p]
              /\ last_op.store_ok => last_op.error_ok[p] = last_op.error_calls[p]
              /\ pending_error_updates[p] = 0

\* A flush wrote two failures of the same proxy to the store.
FlushedTwoFailuresOfOneProxy ==
    /\ last_op.op = "flush"
    /\ \E p \in Proxies : last_op.released.failed[p] = 2 /\ last_op.error_ok[p] = 2

\* --------------------------------------------------------------- SpecStore

\* C3 (as stated): an operation of DatabaseManager made while the breaker is
\* OPEN and less than recovery_timeout has elapsed since last_failure_time
\* neither runs its database code nor checks out a connection.
OpenBreakerKeepsStoreFromDatabase ==
    last_call.open_fresh => (~last_call.invoked /\ ~last_call.checked_out)

\* C10 (as stated): when failure_threshold - 1 calls in a row have raised and
\* the next call succeeds, the breaker is CLOSED with failure_count 0.
SuccessAfterFailuresResetsCounter ==
    (/\ last_call.wrapped /\ last_call.invoked /\ ~last_call.raised
     /\ last_call.streak_before = FailureThreshold - 1)
        => (circuit_breaker.state = "CLOSED" /\ circuit_breaker.failure_count = 0)

\* -------------------------------------------------------------------- Spec

\* C2: a fetch makes at most max_retries + 1 attempts, and its attempt with
\* index max_retries uses no proxy.
FetchAttemptsBounded ==
    \A r \in Clients :
        /\ fetch[r].attempt_count <= MaxRetries + 1
        /\ (fetch[r].attempt = MaxRetries /\ fetch[r].pc # "attempt")
              => fetch[r].selected_proxy = NoProxy

\* A fetch with use_proxy is in its last attempt while the queue holds an
\* entry that get_proxy would hand to it.
LastAttemptWithProxyAtHand ==
    \E r \in Clients :
        /\ fetch[r].pc = "http" /\ fetch[r].attempt = MaxRetries /\ fetch[r].use_proxy
        /\ \E i \in 1..Len(available_proxies) :
              available_proxies[i] \notin failed_proxies \cup request_failed_proxies[r]

\* C7 (as stated): a fetch whose attempt got an HTTP 4xx response is over,
\* with error kind HTTPError and no attempt after that one; its metric, once
\* recorded, carries that attempt's number and HTTPError.
Http4xxEndsFetch ==
    \A r \in Clients :
        IsClientError(fetch[r].status)
            => /\ fetch[r].pc \in {"raised", "done"}
               /\ fetch[r].attempt_count = fetch[r].attempt + 1
               /\ fetch[r].error_type = "HTTPError"
               /\ fetch[r].pc = "done"
                     => \A i \in 1..Len(MetricsOf(r)) :
                           /\ MetricsOf(r)[i].attempt_count = fetch[r].attempt + 1
                           /\ MetricsOf(r)[i].error_type = "HTTPError"
                           /\ ~MetricsOf(r)[i].success

\* C8 (as stated): the step in which a proxied attempt gets an HTTP 4xx
\* response and the fetch raises puts the proxy's id in failed_proxies and
\* adds one pending error increment for it.
ProxyOf4xxAttemptReleasedAsFailed ==
    [][\A r \in Clients :
          (/\ fetch[r].pc = "http" /\ fetch[r].selected_proxy # NoProxy
           /\ fetch'[r].pc = "raised" /\ IsClientError(fetch'[r].status))
              => /\ fetch[r].selected_proxy \in failed_proxies'
                 /\ pending_error_updates'[fetch[r].selected_proxy]
                       = pending_error_updates[fetch[r].selected_proxy] + 1]_vars

\* C9: a fetch that has answered has recorded exactly one metric, and a fetch
\* that has not answered yet none.
ExactlyOneMetricPerFetch ==
    \A r \in Clients :
        Len(MetricsOf(r)) = IF fetch[r].pc = "done" THEN 1 ELSE 0

\* Two fetches have answered: one succeeded after a retry, the other failed in
\* all its attempts.
RetriedSuccessAndExhaustedFetch ==
    \E i, j \in 1..Len(recent_requests) :
        /\ recent_requests[i].success /\ recent_requests[i].attempt_count > 1
        /\ ~recent_requests[j].success
        /\ recent_requests[j].attempt_count = MaxRetries + 1
        /\ \A r \in Clients : fetch[r].pc = "done"

\* ------------------------------------------------- SpecStore: the breaker

\* C11: a call through the breaker made while it is OPEN is rejected without
\* running the database code or taking a connection as long as no more than
\* recovery_timeout has elapsed since the last failure; made later, it is let
\* through, and if it succeeds the breaker is CLOSED with failure_count 0.
OpenBreakerRejectsThenRecovers ==
    [][(BreakerCall /\ circuit_breaker.state = "OPEN")
          => IF now - circuit_breaker.last_failure_time > RecoveryTimeout
             THEN /\ last_call'.invoked
                  /\ ~last_call'.raised
                        => /\ circuit_breaker'.state = "CLOSED"
                           /\ circuit_breaker'.failure_count = 0
             ELSE /\ ~last_call'.invoked /\ ~last_call'.checked_out
                  /\ circuit_breaker' = circuit_breaker]_vars

\* The breaker opened after failure_threshold failures in a row, and the last
\* call, let through after recovery_timeout, succeeded and closed it.
BreakerRecovered ==
    /\ last_call.wrapped /\ last_call.invoked /\ ~last_call.raised
    /\ last_call.streak_before >= FailureThreshold
    /\ circuit_breaker.state = "CLOSED" /\ circuit_breaker.failure_count = 0

\* C19: a call through the breaker whose function raises adds one to
\* failure_count and records the time in last_failure_time; with failure_count
\* at failure_threshold or above the breaker is then OPEN; and the breaker is
\* never OPEN with failure_count below failure_threshold.
FailuresCountedUntilOpen ==
    [][/\ circuit_breaker'.state = "OPEN"
            => circuit_breaker'.failure_count >= FailureThreshold
       /\ (BreakerCall /\ last_call'.raised)
            => /\ circuit_breaker'.failure_count = circuit_breaker.failure_count + 1
               /\ circuit_breaker'.last_failure_time = now
               /\ circuit_breaker'.failure_count >= FailureThreshold
                     => circuit_breaker'.state = "OPEN"]_vars

\* The failure that brought failure_count to failure_threshold, at a time
\* after the start, opened the breaker.
BreakerJustOpened ==
    /\ last_call.wrapped /\ last_call.raised
    /\ circuit_breaker.state = "OPEN"
    /\ circuit_breaker.failure_count = FailureThreshold
    /\ circuit_breaker.last_failure_time = now /\ now > 0

\* C20: a call let through from OPEN (in HALF_OPEN) whose function raises
\* leaves the breaker OPEN with last_failure_time at the time of that failure,
\* so that a call made then is rejected.
FailedProbeReopens ==
    [][(/\ BreakerCall /\ circuit_breaker.state = "OPEN"
        /\ last_call'.invoked /\ last_call'.raised)
          => /\ circuit_breaker'.state = "OPEN"
             /\ circuit_breaker'.last_failure_time = now
             /\ ~CBAdmits(circuit_breaker', now)]_vars

\* A call let through after recovery_timeout raised and the breaker is OPEN
\* again.
ProbeFailed ==
    /\ last_call.wrapped /\ last_call.invoked /\ last_call.raised
    /\ last_call.streak_before >= FailureThreshold
    /\ circuit_breaker.state = "OPEN"
    /\ circuit_breaker.failure_count > FailureThreshold

\* ------------------------------------------------- SpecRows: the proxies table

\* C18: a reset_proxy_errors(M) whose UPDATE ran sets error_count = 0 and
\* status = active for exactly the rows that had error_count <= M and status
\* inactive, returns the number of those rows, and leaves every other row as it
\* was; a call that was rejected or could not reach the database returns 0 and
\* changes no row.
ResetTouchesExactlyRecoverable ==
    [][ResetProxyErrors
          => LET M == last_call'.max_error_count
                 Hit == {p \in Proxies : /\ proxies[p].error_count <= M
                                         /\ proxies[p].status = "inactive"}
             IN IF last_call'.checked_out
                THEN /\ \A p \in Hit : /\ proxies'[p].error_count = 0
                                       /\ proxies'[p].status = "active"
                     /\ \A p \in Proxies \ Hit : proxies'[p] = proxies[p]
                     /\ last_call'.count = Cardinality(Hit)
                ELSE /\ proxies' = proxies
                     /\ last_call'.count = 0]_vars

\* A reset that brought one row back and left another row inactive because its
\* error_count was above M.
ResetOneRowOfTwoInactive ==
    /\ last_call.max_error_count # None
    /\ last_call.checked_out
    /\ last_call.count = 1
    /\ \E p \in Proxies : /\ proxies[p].status = "inactive"
                          /\ proxies[p].error_count > last_call.max_error_count
    /\ \E p \in Proxies : proxies[p].status = "active" /\ proxies[p].error_count = 0

\* ------------------------------------------------------ SpecPool: the queue

\* C12 (as stated): after return_proxy(e, success=True) an entry with id e.id
\* is in the queue, or is in it after the next refresh. Taken over a database
\* that answers, a breaker that admits the query and a row that is still
\* active: the entry a successful release did not enqueue is in the queue
\* once the pool has been refreshed.
SucceededEntryBackByNextRefresh ==
    [][(/\ last_op.op = "return_proxy"
        /\ last_op.success
        /\ ~InQueue(last_op.id, available_proxies)
        /\ get_connection_ok
        /\ CBAdmits(circuit_breaker, now)
        /\ proxies[last_op.id].status = "active"
        /\ RefreshPool)
          => InQueue(last_op.id, available_proxies')]_vars

\* C13 (as stated): a get_proxy that finds the queue empty refreshes the pool
\* and tries once more, so it returns None only if the queue holds no
\* eligible entry (id neither in exclude_ids nor in failed_proxies) after the
\* refresh.
EmptyQueueRefreshedThenRetried ==
    [][(/\ \E c \in Clients : GetProxy(c)
        /\ available_proxies = <<>>
        /\ last_op'.proxy = NoProxy)
          => \A i \in 1..Len(available_proxies') :
                available_proxies'[i] \in last_op'.exclude_ids \cup failed_proxies']_vars

\* C14: a get_proxy whose exclude_ids holds the id of every entry of a
\* non-empty queue returns None, lends nothing, and leaves the queue with
\* exactly the entries it had, rotated (every skipped entry went back to the
\* tail) and so still there for other requests; the fail-set is untouched.
\* (An empty queue has no entry to skip; get_proxy then refreshes the pool.)
AllExcludedKeepsQueue ==
    [][(/\ \E c \in Clients : GetProxy(c)
        /\ available_proxies # <<>>
        /\ \A i \in 1..Len(available_proxies) :
              available_proxies[i] \in last_op'.exclude_ids)
          => /\ last_op'.proxy = NoProxy
             /\ lent' = lent
             /\ failed_proxies' = failed_proxies
             /\ Len(available_proxies') = Len(available_proxies)
             /\ \E k \in 0..(Len(available_proxies) - 1) :
                   \A i \in 1..Len(available_proxies) :
                      available_proxies'[i] =
                         available_proxies[((i - 1 + k) % Len(available_proxies)) + 1]]_vars

\* A get_proxy returned None over a queue of three entries, all excluded by
\* the request alone; a refresh enqueues each row once, so this queue was not
\* filled by the call itself.
AllThreeEntriesSkipped ==
    /\ last_op.op = "get_proxy"
    /\ last_op.proxy = NoProxy
    /\ failed_proxies = {}
    /\ Len(available_proxies) > NumProxies
    /\ \A i \in 1..Len(available_proxies) : available_proxies[i] \in last_op.exclude_ids

\* -------------------------------------------------------- Spec: the fetches

\* C16 (as stated): when a fetch returns its result through a proxy after
\* proxies failed in it, the winning entry is back in the queue with its id
\* in pending_success_updates, and every proxy that failed in the fetch (the
\* request's own fail-set up to the winning attempt) is in failed_proxies
\* with a pending error increment.
WinnerRequeuedLosersFailed ==
    [][\A r \in Clients :
          (/\ fetch[r].pc = "http"
           /\ fetch'[r].pc = "returned"
           /\ fetch[r].selected_proxy # NoProxy
           /\ request_failed_proxies[r] # {})
             => /\ InQueue(fetch[r].selected_proxy, available_proxies')
                /\ fetch[r].selected_proxy \in pending_success_updates'
                /\ \A p \in request_failed_proxies[r] :
                      /\ p \in failed_proxies'
                      /\ pending_error_updates'[p] >= 1]_vars

\* ------------------------------------------- SpecWorker: fetch and worker

\* C15 (as stated): when each of the max_retries proxy attempts of a fetch
\* failed with an error that is retried (each with another proxy) and the
\* fetch returns its result, the result comes from the direct attempt, with
\* no proxy and attempt_count = max_retries + 1, and at that moment the
\* fail-set holds every proxy that failed in the fetch, whatever the worker
\* did meanwhile.
ExhaustedProxiesStayFailed ==
    [][\A r \in Clients :
          (/\ fetch[r].pc = "http"
           /\ fetch'[r].pc = "returned"
           /\ Cardinality(request_failed_proxies[r]) = MaxRetries)
             => /\ fetch'[r].selected_proxy = NoProxy
                /\ fetch'[r].attempt_count = MaxRetries + 1
                /\ request_failed_proxies[r] \subseteq failed_proxies']_vars

\* ------------------------------------------------- SpecMetrics: the ring

\* C17: recent_requests never holds more than max_memory_entries metrics,
\* whatever record_request calls and retention passes were made; a
\* record_request on a full ring drops the oldest (leftmost) entry and keeps
\* the others in order, with the new metric last; a retention pass only
\* removes entries.
RingBoundedOldestEvicted ==
    /\ [](Len(recent_requests) <= MaxMemoryEntries)
    /\ [][/\ (RecordRequest /\ Len(recent_requests) = MaxMemoryEntries)
                => /\ Len(recent_requests') = MaxMemoryEntries
                   /\ \A i \in 1..(MaxMemoryEntries - 1) :
                         recent_requests'[i] = recent_requests[i + 1]
                   /\ recent_requests'[MaxMemoryEntries].timestamp = now
          /\ CleanupPass => Len(recent_requests') <= Len(recent_requests)]_vars

\* A full ring whose oldest entry was recorded at time 0 took one more metric
\* later on: the entry of time 0 is gone and the ring is still full.
RingFullAfterEviction ==
    /\ Len(recent_requests) = MaxMemoryEntries
    /\ now > 0
    /\ recent_requests[MaxMemoryEntries].timestamp = now
    /\ \A i \in 1..Len(recent_requests) : recent_requests[i].timestamp > 0

\* ------------------------------------------- SpecPool: the queue as a cache

\* C21 (as stated): whenever get_proxy hands out an entry, the row of its
\* proxy in the store has status active at that moment.
OfferedProxyIsActive ==
    (last_op.op = "get_proxy" /\ last_op.proxy # NoProxy)
        => proxies[last_op.proxy].status = "active"

\* ------------------------------------------- SpecRows: the rows' consistency

\* C22: an increment_proxy_error(id) whose UPDATE ran raises the error_count
\* of row id by exactly 1, sets its status to inactive in the same step when
\* the new value is >= 3 (else leaves the status), and changes no other row;
\* and after any sequence of increment_proxy_error and reset_proxy_errors
\* calls every row has error_count >= 0 and no row is active with
\* error_count >= 3.
IncrementKeepsRowsConsistent ==
    /\ [](\A p \in Proxies :
            /\ proxies[p].error_count >= 0
            /\ ~(proxies[p].status = "active" /\ proxies[p].error_count >= ErrorThreshold))
    /\ [][(IncrementProxyError /\ last_call'.checked_out)
            => \E id \in Proxies :
                  /\ proxies'[id].error_count = proxies[id].error_count + 1
                  /\ proxies'[id].status =
                        IF proxies[id].error_count + 1 >= 3
                        THEN "inactive" ELSE proxies[id].status
                  /\ \A p \in Proxies \ {id} : proxies'[p] = proxies[p]]_vars

\* An increment brought a row to error_count 3 and so made it inactive,
\* while another row stays active at error_count 2.
ThirdIncrementInactivated ==
    /\ last_call.checked_out
    /\ last_call.max_error_count = None
    /\ \E p \in Proxies : proxies[p].status = "inactive" /\ proxies[p].error_count = ErrorThreshold
    /\ \E p \in Proxies : proxies[p].status = "active" /\ proxies[p].error_count = 2

\* ------------------------------------------------ Spec: the request's set

\* C23 (as stated): while a fetch goes from attempt to attempt (it has not
\* returned its result), the request's set of failed proxy ids only grows,
\* and the proxy an attempt acquires is not one that failed in an earlier
\* attempt of the request.
TriedSetOnlyGrows ==
    [][\A r \in Clients :
          (/\ fetch[r].pc \in {"attempt", "http"}
           /\ fetch'[r].pc \in {"attempt", "http", "raised"})
             => /\ request_failed_proxies[r] \subseteq request_failed_proxies'[r]
                /\ fetch'[r].pc = "http"
                      => fetch'[r].selected_proxy \notin request_failed_proxies[r]]_vars

\* ------------------------------------- SpecPool: entries of failed proxies

RefreshRefillsAndTerminates ==
    [][RefreshPool
          => LET U == Usable(proxies)
                 q == available_proxies'
                 ids == {q[i] : i \in 1..Len(q)}
                 size == IF Cardinality(U) < PoolSize THEN Cardinality(U) ELSE PoolSize
             IN /\ \A n \in refresh_calls(failed_proxies, Store, MaxNesting) : n <= 2
                /\ IF ~get_connection_ok \/ ~CBAdmits(circuit_breaker, now) \/ U = {}
                   THEN /\ available_proxies' = available_proxies
                        /\ failed_proxies' = failed_proxies
                   ELSE /\ Len(q) <= PoolSize
                        /\ Cardinality(ids) = Len(q)
                        /\ \E F \in SUBSET U :
                              /\ Cardinality(F) = size
                              /\ IF Cardinality(F \ failed_proxies) < MinPoolSize
                                    /\ failed_proxies # {}
                                 THEN /\ failed_proxies' = {}
                                      /\ ids \subseteq U
                                      /\ Len(q) = size
                                 ELSE /\ failed_proxies' = failed_proxies
                                      /\ ids = F \ failed_proxies]_vars

\* Every proxy has a failed release waiting for the flush, and yet the
\* fail-set is empty and the queue holds an entry of every proxy again: a
\* refresh found nothing to enqueue, cleared the fail-set and refilled.
RefreshClearedFailSet ==
    /\ last_op = NoFlush
    /\ failed_proxies = {}
    /\ \A p \in Proxies : released.failed[p] >= 1 /\ InQueue(p, available_proxies)
    /\ \A c \in Clients : lent[c] = NoProxy

\* ------------------------------------------- SpecOutage: store unavailable

\* C26 (as stated): while the breaker is OPEN and rejects calls, a refresh
\* leaves queue and fail-set unchanged, and an attempt that begins goes
\* direct, without a proxy.
OutageMeansDirectAttempts ==
    [][(circuit_breaker.state = "OPEN" /\ ~CBAdmits(circuit_breaker, now))
          => /\ RefreshPool => /\ available_proxies' = available_proxies
                               /\ failed_proxies' = failed_proxies
             /\ \A r \in Clients :
                   (fetch[r].pc = "attempt" /\ fetch'[r].pc = "http")
                      => fetch'[r].selected_proxy = NoProxy]_vars

\* C26 (amended): while the breaker is OPEN and rejects calls, a refresh
\* leaves queue and fail-set unchanged and reaches no row; an attempt that
\* begins is still given an entry left in the queue, if one is eligible (id
\* neither in the request's set nor in the fail-set), and goes direct only
\* when get_proxy returns None; neither touches the breaker.
OutageServesQueuedEntries ==
    [][(circuit_breaker.state = "OPEN" /\ ~CBAdmits(circuit_breaker, now))
          => /\ RefreshPool => /\ available_proxies' = available_proxies
                               /\ failed_proxies' = failed_proxies
                               /\ circuit_breaker' = circuit_breaker
             /\ \A r \in Clients :
                   (fetch[r].pc = "attempt" /\ fetch'[r].pc = "http")
                      => /\ circuit_breaker' = circuit_breaker
                         /\ failed_proxies' = failed_proxies
                         /\ IF fetch'[r].selected_proxy # NoProxy
                            THEN /\ InQueue(fetch'[r].selected_proxy, available_proxies)
                                 /\ fetch'[r].selected_proxy
                                       \notin request_failed_proxies[r] \cup failed_proxies
                                 /\ Len(available_proxies') = Len(available_proxies) - 1
                            ELSE Len(available_proxies') = Len(available_proxies)]_vars

\* get_proxy gave an attempt an entry while the breaker was OPEN and the
\* database not answering (no store call was made since).
ProxiedAttemptDuringOutage ==
    /\ circuit_breaker.state = "OPEN"
    /\ ~CBAdmits(circuit_breaker, now)
    /\ last_op.op = "get_proxy"
    /\ last_op.proxy # NoProxy
    /\ fetch[1].pc = "http"
    /\ fetch[1].selected_proxy = last_op.proxy

\* ----------------------------------------- SpecFlush: the maps after a flush

\* C27: when a batch flush has run, pending_error_updates and
\* pending_success_updates are both empty, whether its store calls succeeded
\* or not; an increment whose call failed is dropped: a flush that directly
\* follows a flush makes no store call.
FlushClearsBothMaps ==
    [][ProcessBatchUpdates
          => /\ \A p \in Proxies : pending_error_updates'[p] = 0
             /\ pending_success_updates' = {}
             /\ last_op.op = "flush"
                   => /\ \A p \in Proxies : last_op'.error_calls[p] = 0
                      /\ last_op'.success_calls = 0]_vars

\* A flush made increment_proxy_error calls that all failed (the store was
\* not answering), and both maps are empty after it.
FlushDroppedFailedWriteback ==
    /\ last_op.op = "flush"
    /\ ~last_op.store_ok
    /\ \E p \in Proxies : last_op.error_calls[p] > 0 /\ last_op.error_ok[p] = 0
    /\ last_op.released.ok > 0
    /\ \A p \in Proxies : pending_error_updates[p] = 0
    /\ pending_success_updates = {}

\* ------------------------------------------------------ SpecStop: stop()

\* C28 (as stated): the last step of stop() sends every pending error
\* increment and success mark to the store and leaves both maps empty, and
\* once stop() has returned the background thread makes no refresh and no
\* flush.
StopDrainsAndQuietsWorker ==
    [][/\ StopFlush
          => /\ \A p \in Proxies :
                   /\ last_op'.error_calls[p] = pending_error_updates[p]
                   /\ pending_error_updates'[p] = 0
             /\ last_op'.success_calls = Cardinality(pending_success_updates)
             /\ pending_success_updates' = {}
       /\ (worker.stop = "returned" /\ worker'.pc # worker.pc)
          => worker'.did \notin {"refresh", "flush"}]_vars

\* ------------------------------------------------- SpecLock: the pool's lock

\* C29 (as stated): no store call is in progress while the pool's lock is
\* held, so no get_proxy or return_proxy call waits for the lock while a
\* store call of a refresh or of a batch flush is in progress.
NoStoreCallUnderLock ==
    worker.io => (worker.lock = "free" /\ ~worker.blocked)

\* ------------------------------------------------ SpecPool: exclusive lending

\* C30 (as stated): between get_proxy returning the entry of proxy id p to a
\* caller and that caller's return_proxy, no other caller is returned an
\* entry of id p: no two callers hold an entry of the same id.
EntryLentExclusively ==
    \A c, d \in Clients :
        (c # d /\ lent[c] # NoProxy) => lent[c] # lent[d]

\* -------------------------------------------------- Spec: request contexts

\* C31 (as stated): once a fetch has ended (returned or raised, its metric
\* recorded), request_failed_proxies holds no entry for its request id.
EndedFetchLeavesNoContext ==
    \A r \in Clients :
        fetch[r].pc = "done" => request_failed_proxies[r] = {}

\* ------------------------------------------------ SpecStore: the schema probe

\* C32 (as stated): once the schema probe has run, its cached answer is the
\* actual presence of the last_used column (so that update_proxy_last_used
\* is a no-op exactly when the column is absent), also when the probe's
\* first attempt met a store error.
CachedSchemaMatchesTable ==
    schema.checked => schema.has_last_used = last_used_exists

\* ------------------------------------------- SpecStamps: the retention pass

\* C33 (as stated): after a retention pass the ring holds no metric whose
\* timestamp is older than the retention period, whatever the order in which
\* concurrent record_request_metric calls appended their metrics.
\* A pass that pops nothing leaves the state as it is, so the statement is
\* made of the ring that a pass run in the current state leaves.
CleanupLeavesNoOldMetric ==
    LET cutoff_time == now - MemoryRetention
        kept == popleft_old(recent_requests, cutoff_time)
    IN \A i \in 1..Len(kept) : kept[i].timestamp >= cutoff_time

\* --------------------------------------------- SpecCalls: get_connection

\* C34 (as stated): a connection that get_connection checked out is put back
\* into the connection pool when the body ends, normally or by an exception:
\* the step that ends the body lowers the number of checked-out connections
\* by the one it had raised it.
CheckedOutConnectionReturned ==
    [][\A t \in Clients :
          Body(t) => connection_pool'.out = connection_pool.out - 1]_vars

\* ------------------------------------------- SpecPool: one entry per proxy

\* C35 (as stated): under any interleaving of get_proxy, return_proxy and
\* _refresh_pool the queue holds at most one entry per proxy id.
QueueHoldsEachIdOnce ==
    \A i, j \in 1..Len(available_proxies) :
        i # j => available_proxies[i] # available_proxies[j]

\* ------------------------------------------------ Spec: one release a time

\* C36 (as stated): no attempt of a fetch releases the entry it was lent
\* both as a success and as a failure: no step of an attempt adds a success
\* release and a failure release of the same proxy id.
AttemptReleasesEntryOnce ==
    [][\A p \in Proxies :
          ~(/\ released'.failed[p] > released.failed[p]
            /\ released'.ok > released.ok
            /\ p \in released'.ok_ids)]_vars

\* ------------------------------------------- SpecRecovery: inactivated rows

\* A row that the error increments have taken out of use.
InactivatedByErrors(rows, p) ==
    rows[p].status = "inactive" /\ rows[p].error_count >= ErrorThreshold

\* C37: a row that an operation sets to inactive has error_count >= 3; such
\* a row stays inactive with error_count >= 3 under every operation,
\* reset_proxy_errors(max_error_count=2) included; and no get_proxies call
\* returns it.
InactivatedRowStaysOut ==
    /\ [][\A p \in Proxies :
            /\ (proxies[p].status = "active" /\ proxies'[p].status = "inactive")
                  => proxies'[p].error_count >= ErrorThreshold
            /\ InactivatedByErrors(proxies, p) => InactivatedByErrors(proxies', p)]_vars
    /\ [](\A p \in Proxies : \A count \in 1..NumProxies : \A order \in Orderings(proxies) :
             LET value == get_proxies(Store, count, order).value
             IN InactivatedByErrors(proxies, p)
                   => \A i \in 1..Len(value) : value[i] # p)

\* C37 witness: the reset has run, with max_error_count = 2 and without an
\* error, over a row that the increments had set to inactive, and another
\* row is still returned by get_proxies.
ResetRanOverInactivatedRow ==
    /\ last_call.max_error_count = RecoveryMaxErrorCount
    /\ last_call.invoked /\ ~last_call.raised
    /\ \E p \in Proxies : InactivatedByErrors(proxies, p)
    /\ Usable(proxies) # {}

\* ------------------------------------------- SpecCalls: the breaker's lock

\* Thread t is inside a function that circuit_breaker.call has called.
InCall(t) ==
    /\ Wrapped(threads[t].op)
    /\ threads[t].pc \in {"connect", "creating", "getconn", "body", "leave"}

\* C38: at most one thread is inside a function called by
\* circuit_breaker.call, and the step in which an OPEN breaker rejects a
\* caller is taken while no such call is in flight.
WrappedCallsMutuallyExclusive ==
    /\ [](Cardinality({t \in Clients : InCall(t)}) <= 1)
    /\ [][\A t \in Clients :
            (EnterBreaker(t) /\ ~CBAdmits(circuit_breaker, now))
               => \A u \in Clients : ~InCall(u)]_vars

\* C38 witness: a thread waits for the breaker's lock while the call of
\* another, about to be counted as the failure that opens the breaker, is
\* in flight.
CallerWaitsForFailingCall ==
    /\ threads[1].pc = "breaker"
    /\ threads[2].pc = "leave" /\ threads[2].raised
    /\ locks.breaker = 2
    /\ circuit_breaker.state = "CLOSED"
    /\ circuit_breaker.failure_count = FailureThreshold - 1

\* ------------------------------------------------ SpecCalls: no deadlock

\* Thread t is in an operation.
Active(t) == threads[t].pc # "idle"

\* Thread t waits for a lock that it cannot have now.
Blocked(t) ==
    \/ threads[t].pc = "pool" /\ ~pool_lock_admits(locks.pool, t)
    \/ threads[t].pc = "breaker" /\ locks.breaker # NoThread
    \/ threads[t].pc = "connect" /\ connection_pool.gen = 0 /\ locks.creation # NoThread

\* C39: the threads never deadlock (whenever threads are in operations, one
\* of them does not wait for a lock), and the locks are taken in the order
\* pool lock, breaker lock, creation lock: a thread that asks for the pool's
\* or the breaker's lock holds neither the breaker's nor the creation lock,
\* one that asks for the creation lock does not hold it, and the pool's lock
\* is entered again by the thread that holds it.
NoDeadlockLocksInOrder ==
    /\ (\E t \in Clients : Active(t)) => (\E t \in Clients : Active(t) /\ ~Blocked(t))
    /\ \A t \in Clients :
          /\ threads[t].pc \in {"pool", "breaker"}
                => locks.breaker # t /\ locks.creation # t
          /\ threads[t].pc = "connect" => locks.creation # t
          /\ threads[t].depth > 0 => locks.pool = t

\* C39 witness: a thread that has entered the pool's lock twice (the refresh
\* nested in get_proxy) is inside circuit_breaker.call and holds the creation
\* lock, while the other thread waits for the pool's lock.
NestedRefreshHoldsAllLocks ==
    /\ threads[1].op = "get_proxy" /\ threads[1].depth = 2
    /\ threads[1].pc = "creating"
    /\ locks = [pool |-> 1, breaker |-> 1, creation |-> 1]
    /\ threads[2].pc = "pool"

\* ------------------------------------------------- SpecQueue: job statuses

\* How far a job's stored status is: no key, PENDING, PROCESSING, then
\* COMPLETED or FAILED.
StatusRank(status) ==
    IF status = "none" THEN 0
    ELSE IF status = "pending" THEN 1
    ELSE IF status = "processing" THEN 2
    ELSE 3

\* C40 (as stated): a job's stored status only advances: no step, and so no
\* step of enqueue_job after dequeue_job has written PROCESSING, takes it
\* back to an earlier status.
JobStatusOnlyAdvances ==
    [][\A j \in Jobs :
          StatusRank(redis'.status[j]) >= StatusRank(redis.status[j])]_vars

====
